---- MODULE Spec2Model ----
(***************************************************************************)
(* Model of the medscanbot chat-bot: the registered_users table and the    *)
(* handlers that write it (app/bot/polling.py, app/crud/registered_user.py)*)
(* the time-menu extraction format_schedule_info and the page arithmetic   *)
(* of the branch / department / doctor menus.                              *)
(*                                                                         *)
(* Text is modelled as Python sees it: a message is a sequence of lines    *)
(* (the result of split("\n")), a line is a sequence of tokens where " "   *)
(* is a run of whitespace; an interval text such as "09:00-09:30" is a     *)
(* sequence of character codes so that split('-'), strip() and the         *)
(* lexicographic comparison used by list.sort() are computed, not assumed. *)
(***************************************************************************)
EXTENDS Integers, Sequences, FiniteSets, TLC

VARIABLES
    rows,            \* registered_users table: a set of RegisteredUser rows
    nextId,          \* Identity(always=True) generator of RegisteredUser.id
    state,           \* MemoryContext state (step marker) of every platform user
    clinic,          \* credential pair the clinic system holds per pcode
    nextPcode,       \* next patient code the clinic system hands out
    last,            \* the handler that ran last: user, outcome, API result
    intervals_data,  \* JSON body answered by GET /api/reservation/intervals
    selected_date,   \* selected_date_str passed to format_schedule_info
    doctor_dcode,    \* doctor_dcode passed to format_schedule_info
    time_menu,       \* what format_schedule_info produced
    entries,         \* the intervals the response was assembled from
    shape,           \* which place of the response departs from the nested shape
    menu_items,      \* list handed to build_*_keyboard
    menu_page,       \* page handed to build_*_keyboard
    keyboard,        \* what build_*_keyboard produced
    context_data,    \* MemoryContext data (scratch dict) of every platform user
    reply,           \* what the appointment handler that ran last did and showed
    time_chosen,     \* history: a time slot was chosen after the last created
                     \* reservation / after the last doctor selection, a
                     \* department after the last branch selection
    poll,            \* the poll_max_api_status task: its message in the queue, its runs
    hook,            \* two webhook requests of one user and the user's MemoryContext
    auth             \* the last InfoClinicaClient.authorize_user call: what the clinic
                     \* answered, the requests sent, the result

vars == <<rows, nextId, state, clinic, nextPcode, last,
          intervals_data, selected_date, doctor_dcode, time_menu,
          entries, shape, menu_items, menu_page, keyboard,
          context_data, reply, time_chosen, poll, hook, auth>>

dbVars == <<rows, nextId, state, clinic, nextPcode, last>>
schedVars == <<intervals_data, selected_date, doctor_dcode, time_menu, entries, shape>>
pageVars == <<menu_items, menu_page, keyboard>>
wizVars == <<context_data, reply, time_chosen>>
taskVars == <<poll, hook, auth>>

----------------------------------------------------------------------------
(* Bounds *)

MaxRows == 2         \* rows ever inserted into registered_users
MaxEntries == 3      \* intervals in a well-formed intervals response
MaxMalformed == 2    \* intervals in a response with a malformed place
MaxItems == 11       \* length of a branch / department / doctor list

Users == {1, 2}      \* platform user ids (id_max)

----------------------------------------------------------------------------
(* Python text helpers *)

WS == " "

RECURSIVE LStrip(_)
LStrip(line) ==
    IF line # <<>> /\ Head(line) = WS THEN LStrip(Tail(line)) ELSE line

RECURSIVE RStrip(_)
RStrip(line) ==
    IF line # <<>> /\ line[Len(line)] = WS
    THEN RStrip(SubSeq(line, 1, Len(line) - 1))
    ELSE line

RECURSIVE StripAll(_)
StripAll(text) ==
    IF text = <<>> THEN <<>> ELSE <<RStrip(LStrip(Head(text)))>> \o StripAll(Tail(text))

\* [line.strip() for line in text.strip().split("\n") if line.strip()]
NonEmptyLines(text) == SelectSeq(StripAll(text), LAMBDA line : line # <<>>)

\* parse_lk_registration_text: None, or the six fields
parse_lk_registration_text(text) ==
    LET lines == NonEmptyLines(text) IN
    IF Len(lines) < 6 THEN [ok |-> FALSE]
    \* datetime.strptime(..., "%Y-%m-%d") raises ValueError
    ELSE IF lines[4] \notin {<<"1990-01-15">>, <<"2000-02-29">>} THEN [ok |-> FALSE]
    ELSE [ok |-> TRUE, lastname |-> lines[1], firstname |-> lines[2],
          midname |-> lines[3], bdate |-> lines[4],
          cllogin |-> lines[5], clpassword |-> lines[6]]

\* _parse_login_password: None, or (login, password)
parse_login_password(text) ==
    LET lines == NonEmptyLines(text) IN
    IF Len(lines) < 2 THEN [ok |-> FALSE]
    ELSE [ok |-> TRUE, login |-> lines[1], password |-> lines[2]]

----------------------------------------------------------------------------
(* Messages users type *)

RegTextA == << <<"Ivanov">>, <<"Ivan">>, <<"Ivanovich">>, <<"1990-01-15">>,
               <<"a@x">>, <<"pwA">> >>

\* the well-formed text; lines padded with whitespace, blank lines and a
\* seventh line; five non-empty lines; a date that is not YYYY-MM-DD
RegTexts ==
    {RegTextA,
     << <<WS, "Petrov", WS>>, <<>>, <<"Petr">>, <<WS>>, <<"Petrovich">>,
        <<"2000-02-29">>, <<"b@x", WS>>, <<"pwB">>, <<"extra">> >>,
     << <<"Ivanov">>, <<"Ivan">>, <<>>, <<"1990-01-15">>, <<"a@x">>, <<"pwA">> >>,
     << <<"Ivanov">>, <<"Ivan">>, <<"Ivanovich">>, <<"15.01.1990">>,
        <<"a@x">>, <<"pwA">> >>}

CredTexts ==
    {<< <<"a@x">>, <<"pwA">> >>,
     << <<WS, "c@x">>, <<>>, <<"pwC", WS>> >>,
     << <<"c@x">>, <<WS>> >>}

----------------------------------------------------------------------------
(* registered_users: RegisteredUserRepository *)

Matching(tbl, id_max) == {r \in tbl : r.id_max = id_max}

\* Result.one_or_none(): no row, the row, or MultipleResultsFound raised
one_or_none(S) ==
    IF S = {} THEN [kind |-> "none"]
    ELSE IF Cardinality(S) = 1 THEN [kind |-> "row", row |-> CHOOSE r \in S : TRUE]
    ELSE [kind |-> "MultipleResultsFound"]

get_by_max_id(tbl, id_max) == one_or_none(Matching(tbl, id_max))

get_by_login_and_password(tbl, login, password) ==
    one_or_none({r \in tbl : r.cllogin = login /\ r.clpassword = password})

\* RegisteredUserRepository.save: INSERT of a new row, id from the identity
save(tbl, id, id_max, pcode, p) ==
    tbl \cup {[id |-> id, id_max |-> id_max, pcode |-> pcode,
               lastname |-> p.lastname, firstname |-> p.firstname,
               midname |-> IF p.midname = <<>> THEN <<"None">> ELSE p.midname,
               bdate |-> p.bdate, cllogin |-> p.cllogin,
               clpassword |-> p.clpassword, registered_at |-> id]}

\* update without the WHERE id_max = ... restriction
update_every_row(tbl, id_max, cllogin, clpassword) ==
    {[r EXCEPT !.cllogin = cllogin, !.clpassword = clpassword] : r \in tbl}

\* RegisteredUserRepository.update as the handlers call it: only cllogin and
\* clpassword are passed, every other keyword stays None and is left alone.
\* No row for id_max: nothing is written.
update(tbl, id_max, cllogin, clpassword) ==
    LET found == get_by_max_id(tbl, id_max) IN
    IF found.kind # "row" THEN tbl
    ELSE (tbl \ {found.row}) \cup
         {[found.row EXCEPT !.cllogin = cllogin, !.clpassword = clpassword]}

\* RegisteredUserRepository.delete_by_max_id
delete_by_max_id(tbl, id_max) ==
    LET found == get_by_max_id(tbl, id_max) IN
    IF found.kind # "row" THEN tbl ELSE tbl \ {found.row}

----------------------------------------------------------------------------
(* The clinic system's patients API as the handlers see it *)

NoPcode == 0    \* pcode missing, None, 0 or "": all falsy in `if not pcode`

\* str(pcode) of a JSON number
PyStrInt(n) == << <<"1", "2", "3", "4", "5", "6", "7", "8", "9">>[n] >>

CreateOkStatuses == {200, 201}      \* result.status_code not in (200, 201)
UpdateOkStatuses == {200, 204}      \* result.status_code in (200, 204)
CreateStatuses == {200, 201, 400}
ApiExceptions == {"ConnectTimeout", "ConnectError", "Exception"}

NoApi == [kind |-> "none", exc |-> "", status |-> 0, t |-> "null", pcode |-> NoPcode]

\* what InfoClinicaClient.create_patient can do: raise, or return a result
\* (status, parsed json); json is a dict, a string, a list or None
CreateOutcomes(fresh) ==
    {[kind |-> "raise", exc |-> e, status |-> 0, t |-> "null", pcode |-> NoPcode]
        : e \in ApiExceptions}
    \cup
    {[kind |-> "result", exc |-> "", status |-> s, t |-> j[1], pcode |-> j[2]]
        : s \in CreateStatuses,
          j \in {<<"dict", fresh>>, <<"dict", NoPcode>>, <<"str", fresh>>,
                 <<"null", NoPcode>>, <<"list", NoPcode>>}}

UpdateOutcomes ==
    {[kind |-> "raise", exc |-> e, status |-> 0, t |-> "null", pcode |-> NoPcode]
        : e \in ApiExceptions}
    \cup
    {[kind |-> "result", exc |-> "", status |-> s, t |-> "dict", pcode |-> NoPcode]
        : s \in {200, 204, 400}}

\* the status test with every answered status let through
create_status_any(status) == status \in CreateStatuses

\* handle_lk_registration_data, lines 483-486
create_status_ok(status) == status \in CreateOkStatuses

\* handle_lk_registration_data, lines 488-493: pcode read from result.json
extract_pcode(api) ==
    IF api.t = "dict" THEN api.pcode
    ELSE IF api.t = "str" THEN api.pcode
    ELSE NoPcode

\* the clinic created the patient: it answered 200/201 and named the pcode
ClinicCreated(api) ==
    /\ api.kind = "result"
    /\ api.status \in CreateOkStatuses
    /\ api.t \in {"dict", "str"}
    /\ api.pcode # NoPcode

----------------------------------------------------------------------------
(* Handlers of app/bot/polling.py that touch registered_users *)

NoState == "None"
LkRegistrationForm == "LkRegistrationForm.data"
LkChangeCredentialsForm == "LkChangeCredentialsForm.data"
AuthForm == "AuthForm.data"

\* create_keyboard reads the row by id_max; one_or_none may raise there
create_keyboard_raises(tbl, id_max) ==
    get_by_max_id(tbl, id_max).kind = "MultipleResultsFound"

Ran(handler, user, text, outcome, api, menu, escaped) ==
    [handler |-> handler, user |-> user, text |-> text, outcome |-> outcome,
     api |-> api, menu |-> menu, escaped |-> escaped]

InitDb ==
    /\ rows = {}
    /\ nextId = 1
    /\ state = [u \in Users |-> NoState]
    /\ clinic = <<>>
    /\ nextPcode = 1
    /\ last = Ran("none", 0, <<>>, "none", NoApi, FALSE, FALSE)

\* btn_lk_registration
handle_lk_registration_button(u) ==
    /\ state' = [state EXCEPT ![u] = LkRegistrationForm]
    /\ last' = Ran("handle_lk_registration_button", u, <<>>, "prompt", NoApi, FALSE, FALSE)
    /\ UNCHANGED <<rows, nextId, clinic, nextPcode>>

\* the rows after the try block of handle_lk_registration_data
registration_rows(tbl, id, u, payload, api) ==
    IF api.kind = "raise" THEN tbl
    ELSE IF ~create_status_ok(api.status) THEN tbl
    ELSE IF extract_pcode(api) = NoPcode THEN tbl
    ELSE save(tbl, id, u, PyStrInt(extract_pcode(api)), payload)

registration_outcome(tbl, u, api) ==
    IF api.kind = "raise" THEN api.exc
    ELSE IF ~create_status_ok(api.status) THEN "status_error"
    ELSE IF extract_pcode(api) = NoPcode THEN "no_pcode"
    ELSE IF create_keyboard_raises(tbl, u) THEN "registered_then_error"
    ELSE "registered"

\* a text message while the step marker is LkRegistrationForm.data
handle_lk_registration_data(u, text) ==
    /\ state[u] = LkRegistrationForm
    /\ LET payload == parse_lk_registration_text(text) IN
       IF ~payload.ok
       THEN /\ last' = Ran("handle_lk_registration_data", u, text,
                           "invalid_format", NoApi, FALSE, FALSE)
            /\ UNCHANGED <<rows, nextId, state, clinic, nextPcode>>
       ELSE \E api \in CreateOutcomes(nextPcode) :
            LET newRows == registration_rows(rows, nextId, u, payload, api)
                outcome == registration_outcome(newRows, u, api)
            IN
            /\ ClinicCreated(api) => nextId <= MaxRows
            /\ state' = [state EXCEPT ![u] = NoState]
            /\ rows' = newRows
            /\ nextId' = IF newRows # rows THEN nextId + 1 ELSE nextId
            /\ clinic' = IF ClinicCreated(api)
                         THEN (PyStrInt(api.pcode) :> <<payload.cllogin, payload.clpassword>>)
                              @@ clinic
                         ELSE clinic
            /\ nextPcode' = IF ClinicCreated(api) THEN nextPcode + 1 ELSE nextPcode
            /\ last' = Ran("handle_lk_registration_data", u, text, outcome, api,
                           outcome = "registered", FALSE)

\* btn_change_credentials
handle_change_credentials_button(u) ==
    /\ state' = [state EXCEPT ![u] = LkChangeCredentialsForm]
    /\ last' = Ran("handle_change_credentials_button", u, <<>>, "prompt", NoApi, FALSE, FALSE)
    /\ UNCHANGED <<rows, nextId, clinic, nextPcode>>

\* the clinic's pair after PUT /updatePatients/{pcode}/credentials
clinic_after_update(cl, pcode, login, password, api) ==
    IF api.kind = "result" /\ api.status \in UpdateOkStatuses /\ pcode \in DOMAIN cl
    THEN [cl EXCEPT ![pcode] = <<login, password>>]
    ELSE cl

\* a text message while the step marker is LkChangeCredentialsForm.data
handle_change_credentials_data(u, text) ==
    /\ state[u] = LkChangeCredentialsForm
    /\ state' = [state EXCEPT ![u] = NoState]
    /\ UNCHANGED <<nextId, nextPcode>>
    /\ LET parsed == parse_login_password(text)
           found == get_by_max_id(rows, u)
       IN
       IF ~parsed.ok
       THEN /\ last' = Ran("handle_change_credentials_data", u, text,
                           "invalid_format", NoApi, FALSE, FALSE)
            /\ UNCHANGED <<rows, clinic>>
       ELSE IF found.kind = "MultipleResultsFound"
       THEN \* raised inside try; create_keyboard in the except branch raises again
            /\ last' = Ran("handle_change_credentials_data", u, text,
                           "exception", NoApi, FALSE, TRUE)
            /\ UNCHANGED <<rows, clinic>>
       ELSE IF found.kind = "none"
       THEN /\ last' = Ran("handle_change_credentials_data", u, text,
                           "not_found", NoApi, TRUE, FALSE)
            /\ UNCHANGED <<rows, clinic>>
       ELSE \E api \in UpdateOutcomes :
            \* the row is updated and committed (lines 401-403) before the
            \* clinic is called (line 407)
            /\ rows' = update(rows, u, parsed.login, parsed.password)
            /\ clinic' = clinic_after_update(clinic, found.row.pcode,
                                             parsed.login, parsed.password, api)
            /\ last' = Ran("handle_change_credentials_data", u, text,
                           IF api.kind = "raise" THEN "exception"
                           ELSE IF api.status \in UpdateOkStatuses THEN "updated"
                           ELSE "updated_in_bot_only",
                           api, TRUE, FALSE)

\* btn_delete_account
handle_delete_account(u) ==
    /\ rows' = delete_by_max_id(rows, u)
    /\ last' = Ran("handle_delete_account", u, <<>>,
                   IF get_by_max_id(rows, u).kind = "MultipleResultsFound" THEN "exception"
                   ELSE IF get_by_max_id(rows, u).kind = "row" THEN "deleted"
                   ELSE "not_found",
                   NoApi,
                   get_by_max_id(rows, u).kind # "MultipleResultsFound",
                   get_by_max_id(rows, u).kind = "MultipleResultsFound")
    /\ UNCHANGED <<nextId, state, clinic, nextPcode>>

\* btn_auth
handle_auth_button(u) ==
    /\ state' = [state EXCEPT ![u] = AuthForm]
    /\ last' = Ran("handle_auth_button", u, <<>>, "prompt", NoApi, FALSE, FALSE)
    /\ UNCHANGED <<rows, nextId, clinic, nextPcode>>

\* what handle_auth_data decides: the outcome and the rows it leaves
auth_decision(tbl, u, login, password) ==
    LET user == get_by_login_and_password(tbl, login, password)
        existing_user == get_by_max_id(tbl, u)
    IN
    IF user.kind = "MultipleResultsFound" THEN [outcome |-> "exception", rows |-> tbl]
    ELSE IF user.kind = "none" THEN [outcome |-> "bad_credentials", rows |-> tbl]
    ELSE IF user.row.id_max = u THEN [outcome |-> "already_authorized", rows |-> tbl]
    ELSE IF existing_user.kind = "MultipleResultsFound"
         THEN [outcome |-> "exception", rows |-> tbl]
    ELSE IF existing_user.kind = "row" /\ existing_user.row.id # user.row.id
         THEN [outcome |-> "occupied", rows |-> tbl]
    \* user.id_max = id_max on the row found by login and password
    ELSE [outcome |-> "rebound",
          rows |-> (tbl \ {user.row}) \cup {[user.row EXCEPT !.id_max = u]}]

\* a text message while the step marker is AuthForm.data
handle_auth_data(u, text) ==
    /\ state[u] = AuthForm
    /\ state' = [state EXCEPT ![u] = NoState]
    /\ UNCHANGED <<nextId, clinic, nextPcode>>
    /\ LET parsed == parse_login_password(text) IN
       IF ~parsed.ok
       THEN /\ last' = Ran("handle_auth_data", u, text, "invalid_format",
                           NoApi, FALSE, FALSE)
            /\ UNCHANGED rows
       ELSE LET d == auth_decision(rows, u, parsed.login, parsed.password) IN
            /\ rows' = d.rows
            /\ last' = Ran("handle_auth_data", u, text, d.outcome, NoApi,
                           ~create_keyboard_raises(d.rows, u),
                           create_keyboard_raises(d.rows, u))

\* the main menu is shown and the step marker is left as it is
handle_back_to_main_keeps_step(u) ==
    /\ last' = Ran("handle_back_to_main", u, <<>>, "menu", NoApi,
                   ~create_keyboard_raises(rows, u),
                   create_keyboard_raises(rows, u))
    /\ UNCHANGED <<rows, nextId, state, clinic, nextPcode>>

\* back_to_main
handle_back_to_main(u) ==
    /\ state' = [state EXCEPT ![u] = NoState]
    /\ last' = Ran("handle_back_to_main", u, <<>>, "menu", NoApi,
                   ~create_keyboard_raises(rows, u),
                   create_keyboard_raises(rows, u))
    /\ UNCHANGED <<rows, nextId, clinic, nextPcode>>

\* /start: the row is looked up and the main menu is answered; set_state is
\* not called
handle_start_command(u) ==
    /\ last' = Ran("handle_start_command", u, <<>>, "menu", NoApi,
                   get_by_max_id(rows, u).kind # "MultipleResultsFound",
                   get_by_max_id(rows, u).kind = "MultipleResultsFound")
    /\ UNCHANGED <<rows, nextId, state, clinic, nextPcode>>

----------------------------------------------------------------------------
(* The registration / account specification *)

InitSchedIdle ==
    /\ intervals_data = <<>>
    /\ selected_date = <<>>
    /\ doctor_dcode = <<>>
    /\ time_menu = <<>>
    /\ entries = <<>>
    /\ shape = "ok"

InitPagesIdle ==
    /\ menu_items = <<>>
    /\ menu_page = 0
    /\ keyboard = <<>>

\* nothing in any user's scratch dict, no appointment handler has run

InitWizIdle ==
    /\ context_data = [u \in Users |-> <<>>]
    /\ reply = [handler |-> "none", outcome |-> "none", escaped |-> FALSE,
                fetches |-> 0, reserves |-> 0, replied |-> FALSE,
                main_menu |-> FALSE, requested |-> 0, sent |-> <<>>,
                menu |-> [kind |-> "none", total_pages |-> 0, page |-> 0,
                          buttons |-> <<>>, pagination |-> <<>>]]
    /\ time_chosen = [since_reservation |-> FALSE, since_doctor |-> FALSE,
                      department_since_branch |-> FALSE]

\* no poll task is queued, no webhook request is being handled
NoPoll == [queued |-> FALSE, retries |-> 0, runs |-> 0, countdown |-> 0,
           status |-> "none", step |-> "none", raised |-> FALSE,
           sent |-> <<>>, did |-> {}, upload |-> "none"]
NoHook == [ctx |-> 0, dicts |-> <<>>, lists |-> <<>>, req |-> <<>>,
           deleted |-> {}, appended |-> {}]

NoAuth == [called |-> FALSE, net |-> <<>>, result |-> <<>>]

InitTaskIdle == poll = NoPoll /\ hook = NoHook /\ auth = NoAuth

Init == InitDb /\ InitSchedIdle /\ InitPagesIdle /\ InitWizIdle /\ InitTaskIdle

\* one disjunct per handler of the personal-account dialogue; the user and
\* the text of the message are the inputs
Next ==
    \/ /\ \E u \in Users : handle_lk_registration_button(u)
       /\ UNCHANGED <<schedVars, pageVars, taskVars, wizVars>>
    \/ /\ \E u \in Users, text \in RegTexts : handle_lk_registration_data(u, text)
       /\ UNCHANGED <<schedVars, pageVars, taskVars, wizVars>>
    \/ /\ \E u \in Users : handle_change_credentials_button(u)
       /\ UNCHANGED <<schedVars, pageVars, taskVars, wizVars>>
    \/ /\ \E u \in Users, text \in CredTexts : handle_change_credentials_data(u, text)
       /\ UNCHANGED <<schedVars, pageVars, taskVars, wizVars>>
    \/ /\ \E u \in Users : handle_delete_account(u)
       /\ UNCHANGED <<schedVars, pageVars, taskVars, wizVars>>
    \/ /\ \E u \in Users : handle_auth_button(u)
       /\ UNCHANGED <<schedVars, pageVars, taskVars, wizVars>>
    \/ /\ \E u \in Users, text \in CredTexts : handle_auth_data(u, text)
       /\ UNCHANGED <<schedVars, pageVars, taskVars, wizVars>>
    \/ /\ \E u \in Users : handle_back_to_main(u)
       /\ UNCHANGED <<schedVars, pageVars, taskVars, wizVars>>

Spec == Init /\ [][Next]_vars

----------------------------------------------------------------------------
(* Claims about registered_users *)

Ids(tbl) == {r.id : r \in tbl}

IsRegistrationRun == last.handler = "handle_lk_registration_data"

RegistrationSucceeded ==
    IsRegistrationRun /\ last.outcome \in {"registered", "registered_then_error"}

\* C1: the registered_users table holds at most one row per platform user
\* id (id_max), whatever registrations, authorizations, credential changes
\* and deletions happened.
C1_OneRowPerIdMax ==
    \A u \in Users : Cardinality(Matching(rows, u)) <= 1

\* C2: a row is created only by a registration whose patient-creation call
\* returned status 200 or 201 with a non-empty pcode; every other outcome
\* (other status, no pcode, timeout, connection error, exception) writes no row.
C2_RowOnlyAfterPatientCreated ==
    [][ (Ids(rows') # Ids(rows) /\ Ids(rows) \subseteq Ids(rows'))
        => /\ last'.handler = "handle_lk_registration_data"
           /\ last'.api.kind = "result"
           /\ last'.api.status \in {200, 201}
           /\ last'.api.t \in {"dict", "str"}
           /\ last'.api.pcode # NoPcode
           /\ Cardinality(rows') = Cardinality(rows) + 1 ]_vars

C2_Witness ==
    /\ RegistrationSucceeded
    /\ last.api.status = 201
    /\ \E r \in rows : r.id_max = last.user /\ r.pcode = PyStrInt(last.api.pcode)

\* C3: after a successful registration of platform id U, get_by_max_id(U)
\* returns a row whose lastname, firstname, midname, bdate and cllogin are
\* the submitted ones.
C3_RegistrationRoundTrip ==
    RegistrationSucceeded =>
        LET got == get_by_max_id(rows, last.user)
            sent == parse_lk_registration_text(last.text)
        IN /\ got.kind = "row"
           /\ got.row.lastname = sent.lastname
           /\ got.row.firstname = sent.firstname
           /\ got.row.midname = sent.midname
           /\ got.row.bdate = sent.bdate
           /\ got.row.cllogin = sent.cllogin

\* C4: the cllogin / clpassword of every row equal the pair the clinic
\* system holds for the row's patient; a credential change the clinic
\* rejects or that fails with an exception leaves the row as it was.
C4_CredentialsMirrorClinic ==
    \A r \in rows :
        /\ r.pcode \in DOMAIN clinic
        /\ clinic[r.pcode] = <<r.cllogin, r.clpassword>>

\* C5: a credential change modifies only cllogin and clpassword of the row
\* whose id_max is the requesting user; pcode, names, birth date,
\* registered_at and the rows of other users stay as they are, and with no
\* row for that id_max nothing is written.
C5_CredentialChangeFrame ==
    [][ last'.handler = "handle_change_credentials_data"
        => /\ Ids(rows') = Ids(rows)
           /\ Cardinality(rows') = Cardinality(rows)
           /\ \A r \in rows : \E r2 \in rows' :
                /\ r2.id = r.id
                /\ r.id_max # last'.user => r2 = r
                /\ r2 = [r EXCEPT !.cllogin = r2.cllogin, !.clpassword = r2.clpassword]
           /\ Matching(rows, last'.user) = {} => rows' = rows ]_vars

C5_Witness ==
    /\ last.handler = "handle_change_credentials_data"
    /\ last.outcome = "updated"
    /\ \E r \in rows : /\ r.id_max = last.user
                       /\ r.cllogin = <<"c@x">> /\ r.clpassword = <<"pwC">>
                       /\ r.lastname = <<"Petrov">>
    /\ \E r \in rows : r.id_max # last.user /\ r.cllogin # <<"c@x">>

\* C14: a credential message with fewer than two non-empty lines, sent in
\* the change-credentials or the authorization step, leaves the step marker
\* at that awaiting-credentials step, so the next text is credential input again.
C14_InvalidCredentialsKeepStep ==
    (last.outcome = "invalid_format"
        /\ last.handler \in {"handle_change_credentials_data", "handle_auth_data"})
    => state[last.user] = (IF last.handler = "handle_auth_data"
                           THEN AuthForm ELSE LkChangeCredentialsForm)

\* C16: a registration submission that fails (status other than 200 / 201,
\* no pcode, timeout, connection error, any other exception) returns the
\* user to the main menu.
C16_FailedRegistrationShowsMainMenu ==
    (IsRegistrationRun
        /\ last.outcome \in {"status_error", "no_pcode", "ConnectTimeout",
                              "ConnectError", "Exception"})
    => last.menu

\* C20: handling an event of platform user A leaves the scratch state of
\* every other user B and B's row, with its id_max binding, unchanged.
C20_OtherUsersUntouched ==
    [][ /\ \A u \in Users : u # last'.user => context_data'[u] = context_data[u]
        /\ \A r \in rows : r.id_max # last'.user => r \in rows' ]_vars

----------------------------------------------------------------------------
(* JSON values and the Python operations format_schedule_info applies *)

JNull == [t |-> "null", v |-> <<>>]
JBool(b) == [t |-> "bool", v |-> b]
JInt(n) == [t |-> "int", v |-> n]
JStr(chars) == [t |-> "str", v |-> chars]     \* chars: sequence of character codes
JList(seq) == [t |-> "list", v |-> seq]
JDict(f) == [t |-> "dict", v |-> f]           \* f: function from keys to values

\* isinstance(x, dict) / isinstance(x, list)
IsDict(x) == x.t = "dict"
IsList(x) == x.t = "list"

\* d.get(key, default)
DictGet(d, key, default) == IF key \in DOMAIN d.v THEN d.v[key] ELSE default

\* bool(x)
Truthy(x) ==
    CASE x.t = "null" -> FALSE
      [] x.t = "bool" -> x.v
      [] x.t = "int"  -> x.v # 0
      [] x.t = "str"  -> x.v # <<>>
      [] x.t = "list" -> x.v # <<>>
      [] x.t = "dict" -> DOMAIN x.v # {}

\* str(x) for the values a dcode takes: a number below ten, a string, None
PyStr(x) ==
    CASE x.t = "int"  -> IF x.v < 10 THEN <<48 + x.v>>
                         ELSE <<48 + (x.v \div 10), 48 + (x.v % 10)>>
      [] x.t = "str"  -> x.v
      [] x.t = "null" -> <<78, 111, 110, 101>>

\* `for e in x`: a list yields its elements; a dict yields its keys and a
\* string its characters, none of which passes the isinstance(e, dict) test
\* that follows, so they count as no elements; None, numbers and booleans
\* raise TypeError
Iterate(x) ==
    [raised |-> x.t \notin {"list", "dict", "str"},
     items |-> IF x.t = "list" THEN x.v ELSE <<>>]

Ch == [sp |-> 32, dash |-> 45, colon |-> 58, underscore |-> 95]

\* str.split(c)[0]
RECURSIVE BeforeFirst(_, _)
BeforeFirst(str, c) ==
    IF str = <<>> \/ Head(str) = c THEN <<>>
    ELSE <<Head(str)>> \o BeforeFirst(Tail(str), c)

RECURSIVE LStripSp(_)
LStripSp(str) ==
    IF str # <<>> /\ Head(str) = Ch.sp THEN LStripSp(Tail(str)) ELSE str

RECURSIVE RStripSp(_)
RStripSp(str) ==
    IF str # <<>> /\ str[Len(str)] = Ch.sp
    THEN RStripSp(SubSeq(str, 1, Len(str) - 1))
    ELSE str

\* a < b for Python strings: lexicographic on character codes
RECURSIVE StrLess(_, _)
StrLess(a, b) ==
    IF b = <<>> THEN FALSE
    ELSE IF a = <<>> THEN TRUE
    ELSE IF Head(a) # Head(b) THEN Head(a) < Head(b)
    ELSE StrLess(Tail(a), Tail(b))

----------------------------------------------------------------------------
(* format_schedule_info: the time menu of a doctor on a date *)

\* get_start_time / _get_start_time
get_start_time(time_str) ==
    IF \E i \in 1..Len(time_str) : time_str[i] = Ch.dash
    THEN RStripSp(LStripSp(BeforeFirst(time_str, Ch.dash)))
    ELSE time_str

\* an interval kept whatever isFree says
interval_selected_any(interval) ==
    Truthy(DictGet(interval, "time", JStr(<<>>)))

\* if interval.get("isFree", False) and interval.get("time")
interval_selected(interval) ==
    /\ Truthy(DictGet(interval, "isFree", JBool(FALSE)))
    /\ Truthy(DictGet(interval, "time", JStr(<<>>)))

\* the list left in the order the response gave
sort_skipped(infos) == infos

\* list.sort(key=...) is stable: x goes behind every element whose key is
\* not greater than its own
RECURSIVE insert_sorted(_, _)
insert_sorted(x, sorted) ==
    IF sorted = <<>> THEN <<x>>
    ELSE IF StrLess(get_start_time(x.time), get_start_time(Head(sorted).time))
         THEN <<x>> \o sorted
         ELSE <<Head(sorted)>> \o insert_sorted(x, Tail(sorted))

RECURSIVE sort_rec(_)
sort_rec(infos) ==
    IF infos = <<>> THEN <<>>
    ELSE insert_sorted(infos[Len(infos)], sort_rec(SubSeq(infos, 1, Len(infos) - 1)))

\* date_intervals.sort(key=lambda x: get_start_time(x["time"]))
sort_by_start(infos) == sort_rec(infos)

Collected(out) == [raised |-> FALSE, out |-> out]
Raised == [raised |-> TRUE, out |-> <<>>]

Then(a, b) ==
    IF a.raised \/ b.raised THEN Raised ELSE Collected(a.out \o b.out)

\* for interval in schedule_item.get("intervals", [])
RECURSIVE intervals_loop(_, _, _, _)
intervals_loop(intervals, schedident, date_str, dcode) ==
    IF intervals = <<>> THEN <<>>
    ELSE (IF IsDict(Head(intervals)) /\ interval_selected(Head(intervals))
          THEN <<[time |-> Head(intervals).v["time"].v, schedident |-> schedident,
                  workDate |-> date_str, dcode |-> dcode]>>
          ELSE <<>>)
         \o intervals_loop(Tail(intervals), schedident, date_str, dcode)

\* one schedule_item of date_data
schedule_item_step(schedule_item, date_str, dcode) ==
    IF ~IsDict(schedule_item) THEN Collected(<<>>)
    ELSE IF PyStr(DictGet(schedule_item, "dcode", JStr(<<>>))) # PyStr(dcode)
    THEN Collected(<<>>)
    ELSE LET it == Iterate(DictGet(schedule_item, "intervals", JList(<<>>))) IN
         IF it.raised THEN Raised
         ELSE Collected(intervals_loop(it.items,
                                       DictGet(schedule_item, "schedident", JNull),
                                       date_str, dcode))

\* for schedule_item in date_data
RECURSIVE date_data_loop(_, _, _)
date_data_loop(date_data, date_str, dcode) ==
    IF date_data = <<>> THEN Collected(<<>>)
    ELSE LET first == schedule_item_step(Head(date_data), date_str, dcode) IN
         IF first.raised THEN Raised
         ELSE Then(first, date_data_loop(Tail(date_data), date_str, dcode))

\* for workdate_item in item.get("workdates", [])
RECURSIVE workdates_loop(_, _, _)
workdates_loop(workdates, date_str, dcode) ==
    IF workdates = <<>> THEN Collected(<<>>)
    ELSE LET wd == Head(workdates)
             first == IF ~IsDict(wd) THEN Collected(<<>>)
                      ELSE IF date_str \notin DOMAIN wd.v THEN Collected(<<>>)
                      ELSE IF ~IsList(wd.v[date_str]) THEN Collected(<<>>)
                      ELSE date_data_loop(wd.v[date_str].v, date_str, dcode)
         IN IF first.raised THEN Raised
            ELSE Then(first, workdates_loop(Tail(workdates), date_str, dcode))

\* for item in data_list
RECURSIVE data_loop(_, _, _)
data_loop(data_list, date_str, dcode) ==
    IF data_list = <<>> THEN Collected(<<>>)
    ELSE LET item == Head(data_list)
             it == IF IsDict(item)
                   THEN Iterate(DictGet(item, "workdates", JList(<<>>)))
                   ELSE [raised |-> FALSE, items |-> <<>>]
             first == IF it.raised THEN Raised
                      ELSE workdates_loop(it.items, date_str, dcode)
         IN IF first.raised THEN Raised
            ELSE Then(first, data_loop(Tail(data_list), date_str, dcode))

\* format_schedule_info: the sorted date_intervals, or an exception;
\* intervals_data.get raises AttributeError unless intervals_data is a dict
format_schedule_info(data, date_str, dcode) ==
    LET it == IF IsDict(data) THEN Iterate(DictGet(data, "data", JList(<<>>)))
              ELSE [raised |-> TRUE, items |-> <<>>]
        found == IF it.raised THEN Raised ELSE data_loop(it.items, date_str, dcode)
    IN IF found.raised THEN [raised |-> TRUE, slots |-> <<>>]
       ELSE [raised |-> FALSE, slots |-> sort_by_start(found.out)]

----------------------------------------------------------------------------
(* Responses of GET /api/reservation/intervals *)

\* the 'time' texts of the sampled intervals
Times ==
    [T0900 |-> <<48, 57, 58, 48, 48, 45, 48, 57, 58, 51, 48>>,          \* "09:00-09:30"
     T0930 |-> <<48, 57, 58, 51, 48, 32, 45, 32, 49, 48, 58, 48, 48>>,  \* "09:30 - 10:00"
     T1000 |-> <<49, 48, 58, 48, 48>>,                                  \* "10:00"
     T0830 |-> <<48, 56, 58, 51, 48, 45, 48, 57, 58, 48, 48>>]          \* "08:30-09:00"

Interval(time, isFree) == JDict("time" :> JStr(time) @@ "isFree" :> JBool(isFree))

\* Consecutive intervals of one date form one workdates element, consecutive
\* intervals of one doctor in it one schedule block; the block's schedident
\* is 40 + the position of its first interval.
RECURSIVE Grouped(_)
Grouped(es) ==
    IF es = <<>> THEN <<>>
    ELSE LET n == Len(es)
             e == es[n]
             g == Grouped(SubSeq(es, 1, n - 1))
             newBlock == [dcode |-> e.dcode, schedident |-> 40 + n,
                          intervals |-> <<e.interval>>]
         IN IF g = <<>> \/ g[Len(g)].date # e.date
            THEN Append(g, [date |-> e.date, blocks |-> <<newBlock>>])
            ELSE LET bs == g[Len(g)].blocks
                     b == bs[Len(bs)]
                 IN IF b.dcode = e.dcode
                    THEN [g EXCEPT ![Len(g)].blocks[Len(bs)].intervals = Append(@, e.interval)]
                    ELSE [g EXCEPT ![Len(g)].blocks = Append(@, newBlock)]

\* the schedident of the block the i-th interval lies in
RECURSIVE SchedidentOf(_, _)
SchedidentOf(es, i) ==
    IF i = 1 \/ es[i - 1].date # es[i].date \/ es[i - 1].dcode # es[i].dcode
    THEN 40 + i
    ELSE SchedidentOf(es, i - 1)

\* the response body: the documented nesting, departing from it at the
\* place `sh` names
Response(es, sh) ==
    LET BlockJson(b) ==
            IF sh = "block_not_dict" THEN JStr(<<>>)
            ELSE IF sh = "intervals_missing"
            THEN JDict("schedident" :> JInt(b.schedident) @@ "dcode" :> JInt(b.dcode))
            ELSE JDict("schedident" :> JInt(b.schedident) @@ "dcode" :> JInt(b.dcode)
                       @@ "intervals" :> (IF sh = "intervals_null" THEN JNull
                                          ELSE JList(b.intervals)))
        WorkdateJson(g) ==
            IF sh = "workdate_not_dict" THEN JList(<<>>)
            ELSE IF sh = "date_not_list" THEN JDict(g.date :> JNull)
            ELSE JDict(g.date :> JList([i \in 1..Len(g.blocks) |-> BlockJson(g.blocks[i])]))
        gs == Grouped(es)
        ItemJson ==
            IF sh = "item_not_dict" THEN JNull
            ELSE IF sh = "workdates_missing" THEN JDict("rnum" :> JInt(1))
            ELSE JDict("workdates" :>
                       (IF sh = "workdates_null" THEN JNull
                        ELSE JList([i \in 1..Len(gs) |-> WorkdateJson(gs[i])])))
    IN IF sh = "top_not_dict" THEN JList(<<ItemJson>>)
       ELSE IF sh = "data_missing" THEN JDict("success" :> JBool(TRUE))
       ELSE JDict("data" :> (IF sh = "data_null" THEN JNull ELSE JList(<<ItemJson>>)))

InitSchedule ==
    /\ InitTaskIdle
    /\ InitDb
    /\ InitPagesIdle
    /\ InitWizIdle
    /\ shape \in {"ok", "top_not_dict", "data_missing", "data_null", "item_not_dict",
                  "workdates_missing", "workdates_null", "workdate_not_dict",
                  "date_not_list", "block_not_dict", "intervals_missing",
                  "intervals_null"}
    /\ entries \in UNION {[1..k ->
                             [date : {"20260121", "20260122"}, dcode : {1, 2},
                              interval : {Interval(Times.T0900, TRUE),
                                          Interval(Times.T0930, TRUE),
                                          Interval(Times.T1000, TRUE),
                                          Interval(Times.T0830, FALSE),
                                          Interval(<<>>, TRUE)}]] :
                          k \in 0..(IF shape = "ok" THEN MaxEntries ELSE MaxMalformed)}
    /\ intervals_data = Response(entries, shape)
    /\ selected_date = "20260121"
    /\ doctor_dcode \in {JInt(1), JStr(<<49>>)}
    /\ time_menu = [built |-> FALSE, raised |-> FALSE, slots |-> <<>>]

----------------------------------------------------------------------------
(* Claims about the time menu *)

\* the doctor code doctor_dcode denotes, given as the number 1 or the text "1"
SelectedDoctor ==
    IF doctor_dcode.t = "int" THEN doctor_dcode.v ELSE doctor_dcode.v[1] - 48

IntervalTime(e) == e.interval.v["time"].v
IntervalFree(e) == e.interval.v["isFree"].v

\* the i-th interval of the response is under the selected date, in a block
\* of the selected doctor, free and has a time
Bookable(i) ==
    /\ entries[i].date = selected_date
    /\ entries[i].dcode = SelectedDoctor
    /\ IntervalFree(entries[i])
    /\ IntervalTime(entries[i]) # <<>>

\* minutes after midnight at which a sampled interval starts
StartMinute(time) ==
    CASE time = Times.T0830 -> 510
      [] time = Times.T0900 -> 540
      [] time = Times.T0930 -> 570
      [] time = Times.T1000 -> 600

\* C6: the time menu for doctor C and date D has a slot for an interval iff
\* the interval is under date key D, in a schedule block whose dcode is C,
\* is marked isFree and has a non-empty time.
C6_SlotsAreTheFreeIntervals ==
    (time_menu.built /\ shape = "ok") =>
        /\ ~time_menu.raised
        /\ \A i \in 1..Len(entries) : Bookable(i) =>
             \E j \in 1..Len(time_menu.slots) :
                /\ time_menu.slots[j].time = IntervalTime(entries[i])
                /\ time_menu.slots[j].schedident = JInt(SchedidentOf(entries, i))
        /\ \A j \in 1..Len(time_menu.slots) :
             /\ time_menu.slots[j].workDate = selected_date
             /\ time_menu.slots[j].dcode = doctor_dcode
             /\ \E i \in 1..Len(entries) :
                /\ Bookable(i)
                /\ time_menu.slots[j].time = IntervalTime(entries[i])
                /\ time_menu.slots[j].schedident = JInt(SchedidentOf(entries, i))

C6_Witness ==
    /\ time_menu.built /\ shape = "ok"
    /\ Len(time_menu.slots) = 1
    /\ \E i \in 1..Len(entries) : Bookable(i)
    /\ \E i \in 1..Len(entries) :
         /\ entries[i].date = selected_date /\ entries[i].dcode = SelectedDoctor
         /\ ~IntervalFree(entries[i])
    /\ \E i \in 1..Len(entries) :
         /\ IntervalFree(entries[i]) /\ IntervalTime(entries[i]) # <<>>
         /\ entries[i].date # selected_date \/ entries[i].dcode # SelectedDoctor

\* C7: the slot list has one entry per start time, also when the response
\* holds several free intervals with the same start time for the selected
\* doctor and date.
C7_OneSlotPerStartTime ==
    (time_menu.built /\ ~time_menu.raised) =>
        \A i, j \in 1..Len(time_menu.slots) :
            i # j => get_start_time(time_menu.slots[i].time)
                     # get_start_time(time_menu.slots[j].time)

\* C8: the slots are in ascending order of their start time, whatever the
\* order of intervals and schedule blocks in the response.
C8_SlotsAscendByStart ==
    (time_menu.built /\ ~time_menu.raised) =>
        \A i, j \in 1..Len(time_menu.slots) :
            i < j => StartMinute(time_menu.slots[i].time)
                     <= StartMinute(time_menu.slots[j].time)

C8_Witness ==
    /\ time_menu.built /\ shape = "ok"
    /\ Len(time_menu.slots) >= 2
    /\ \E i, j \in 1..Len(entries) :
         /\ i < j /\ Bookable(i) /\ Bookable(j)
         /\ StartMinute(IntervalTime(entries[i])) > StartMinute(IntervalTime(entries[j]))
         /\ SchedidentOf(entries, i) # SchedidentOf(entries, j)

\* C9: a response that lacks the expected nested shape gives an empty slot
\* list and raises nothing.
C9_MalformedGivesEmptyMenu ==
    (time_menu.built /\ shape # "ok") =>
        /\ ~time_menu.raised
        /\ time_menu.slots = <<>>

----------------------------------------------------------------------------
(* build_branches_keyboard / build_departments_keyboard / build_doctors_keyboard *)

BRANCHES_PER_PAGE == 5
DEPARTMENTS_PER_PAGE == 5
DOCTORS_PER_PAGE == 5

Min(a, b) == IF a < b THEN a ELSE b

\* one page too many whenever the length is a multiple of the page size
total_pages_div_plus_one(total, per_page) == total \div per_page + 1

\* total_pages = (total + PER_PAGE - 1) // PER_PAGE if total > 0 else 1
total_pages_of(total, per_page) ==
    IF total > 0 THEN (total + per_page - 1) \div per_page ELSE 1

\* only the lower end is corrected
clamp_page_low_only(page, total_pages) == IF page < 0 THEN 0 ELSE page

\* if page < 0: page = 0 / elif page >= total_pages: page = total_pages - 1
clamp_page(page, total_pages) ==
    IF page < 0 THEN 0
    ELSE IF page >= total_pages THEN total_pages - 1
    ELSE page

\* items[start_idx:end_idx]
Slice(items, start_idx, end_idx) == SubSeq(items, start_idx + 1, end_idx)

\* the paginated menu with a 'next' button on the last page as well
paged_keyboard_next_always(kind, items, page_arg, per_page) ==
    LET total == Len(items)
        total_pages == total_pages_of(total, per_page)
        page == clamp_page(page_arg, total_pages)
        start_idx == page * per_page
        end_idx == Min(start_idx + per_page, total)
    IN [kind |-> kind, total_pages |-> total_pages, page |-> page,
        buttons |-> Slice(items, start_idx, end_idx),
        pagination |-> (IF page > 0 THEN <<[dir |-> "prev", page |-> page - 1]>> ELSE <<>>)
                       \o <<[dir |-> "next", page |-> page + 1]>>]

\* the paginated menu: item buttons of the page, then the previous / next
\* buttons with the page number their payload carries
paged_keyboard(kind, items, page_arg, per_page) ==
    LET total == Len(items)
        total_pages == total_pages_of(total, per_page)
        page == clamp_page(page_arg, total_pages)
        start_idx == page * per_page
        end_idx == Min(start_idx + per_page, total)
    IN [kind |-> kind, total_pages |-> total_pages, page |-> page,
        buttons |-> Slice(items, start_idx, end_idx),
        pagination |-> (IF page > 0 THEN <<[dir |-> "prev", page |-> page - 1]>> ELSE <<>>)
                       \o (IF page < total_pages - 1
                           THEN <<[dir |-> "next", page |-> page + 1]>> ELSE <<>>)]

build_branches_keyboard(branches, page) ==
    paged_keyboard("branches", branches, page, BRANCHES_PER_PAGE)

build_departments_keyboard(departments, page) ==
    paged_keyboard("departments", departments, page, DEPARTMENTS_PER_PAGE)

build_doctors_keyboard(doctors, page) ==
    paged_keyboard("doctors", doctors, page, DOCTORS_PER_PAGE)

NoKeyboard ==
    [kind |-> "none", total_pages |-> 0, page |-> 0, buttons |-> <<>>, pagination |-> <<>>]

\* lists of ids 1..n and pages from one below the first to beyond the last
InitPages ==
    /\ InitTaskIdle
    /\ InitDb
    /\ InitSchedIdle
    /\ InitWizIdle
    /\ menu_items \in {[i \in 1..n |-> i] : n \in 0..MaxItems}
    /\ menu_page \in -1..(MaxItems \div BRANCHES_PER_PAGE + 2)
    /\ keyboard = NoKeyboard

\* a menu is built once for the list and the requested page
NextPages ==
    \/ /\ keyboard.kind = "none"
       /\ keyboard' = build_branches_keyboard(menu_items, menu_page)
       /\ UNCHANGED <<menu_items, menu_page, dbVars, schedVars, wizVars, taskVars>>
    \/ /\ keyboard.kind = "none"
       /\ keyboard' = build_departments_keyboard(menu_items, menu_page)
       /\ UNCHANGED <<menu_items, menu_page, dbVars, schedVars, wizVars, taskVars>>
    \/ /\ keyboard.kind = "none"
       /\ keyboard' = build_doctors_keyboard(menu_items, menu_page)
       /\ UNCHANGED <<menu_items, menu_page, dbVars, schedVars, wizVars, taskVars>>

SpecPages == InitPages /\ [][NextPages]_vars

----------------------------------------------------------------------------
(* Claims about pagination *)

\* the least k with 5 * k >= n
CeilFifth(n) == CHOOSE k \in 0..n : 5 * k >= n /\ 5 * (k - 1) < n

\* C10: for a list of length N and the page size 5 of the branch, department
\* and doctor menus the number of pages is ceil(N / 5), and 1 when N = 0.
C10_PageCountIsCeiling ==
    keyboard.kind # "none" =>
        keyboard.total_pages = IF Len(menu_items) = 0 THEN 1
                               ELSE CeilFifth(Len(menu_items))

C10_Witness ==
    /\ keyboard.kind = "doctors"
    /\ Len(menu_items) = 10
    /\ keyboard.total_pages = 2

\* the number of pages of the list handed to the builder
PageCount == IF Len(menu_items) = 0 THEN 1 ELSE CeilFifth(Len(menu_items))

Dirs(kb) == {kb.pagination[i].dir : i \in 1..Len(kb.pagination)}

\* C12: the 'previous' button is present iff page > 0 and carries page - 1,
\* the 'next' button iff page < page_count - 1 and carries page + 1, so every
\* page number on a pagination button lies in [0, page_count - 1]; with 8
\* branches page 0 shows 5 branches and only 'next', page 1 the remaining 3
\* and only 'prev'.
C12_PaginationButtons ==
    keyboard.kind # "none" =>
        /\ ("prev" \in Dirs(keyboard)) <=> (keyboard.page > 0)
        /\ ("next" \in Dirs(keyboard)) <=> (keyboard.page < PageCount - 1)
        /\ Len(keyboard.pagination) = Cardinality(Dirs(keyboard))
        /\ \A i \in 1..Len(keyboard.pagination) :
             LET b == keyboard.pagination[i] IN
             /\ b.dir \in {"prev", "next"}
             /\ b.page = IF b.dir = "prev" THEN keyboard.page - 1 ELSE keyboard.page + 1
             /\ b.page >= 0 /\ b.page <= PageCount - 1
        /\ (Len(menu_items) = 8 /\ menu_page = 0) =>
             /\ keyboard.buttons = <<1, 2, 3, 4, 5>>
             /\ Dirs(keyboard) = {"next"}
        /\ (Len(menu_items) = 8 /\ menu_page = 1) =>
             /\ keyboard.buttons = <<6, 7, 8>>
             /\ Dirs(keyboard) = {"prev"}

C12_Witness ==
    /\ keyboard.kind = "branches"
    /\ Len(menu_items) = 8 /\ menu_page = 1
    /\ Len(keyboard.buttons) = 3
    /\ keyboard.pagination = <<[dir |-> "prev", page |-> 0]>>

----------------------------------------------------------------------------
(* MemoryContext data: the scratch dict of a user *)

\* data.get(key, default)
ctx_get(d, key, default) == IF key \in DOMAIN d THEN d[key] ELSE default

\* context.update_data(**upd)
update_data(d, upd) == upd @@ d

\* _delete_messages: the stored messages are deleted and the list is emptied
delete_messages(d) ==
    IF Truthy(ctx_get(d, "delete_messages_id", JList(<<>>)))
    THEN update_data(d, "delete_messages_id" :> JList(<<>>))
    ELSE d

\* a message text kept in the scratch dict
JText(text) == [t |-> "text", v |-> text]

----------------------------------------------------------------------------
(* RegistrationForm: the step-by-step registration of a new user *)


Digits == {"0", "1", "2", "3", "4", "5", "6", "7", "8", "9"}

\* r'^\+7\(\d{3}\)\d{3}-\d{2}-\d{2}$' position by position; "d" stands for \d
PhonePattern ==
    <<"+", "7", "(", "d", "d", "d", ")", "d", "d", "d", "-", "d", "d", "-", "d", "d">>

\* re.match of the pattern body against the characters of one line
RECURSIVE match_from(_, _)
match_from(chars, pattern) ==
    IF pattern = <<>> THEN chars = <<>>
    ELSE IF chars = <<>> THEN FALSE
    ELSE /\ IF Head(pattern) = "d" THEN Head(chars) \in Digits
            ELSE Head(chars) = Head(pattern)
         /\ match_from(Tail(chars), Tail(pattern))

\* every text is let through
validate_phone_any(text) == TRUE

\* validate_phone: `$` matches at the end of the text and also before one
\* trailing newline
validate_phone(text) ==
    /\ text # <<>>
    /\ match_from(text[1], PhonePattern)
    /\ \/ Len(text) = 1
       \/ Len(text) = 2 /\ text[2] = <<>>

PhoneGood == << <<"+", "7", "(", "9", "9", "9", ")", "1", "2", "3", "-", "4", "5", "-", "6", "7">> >>
PhoneLetters == << <<"+", "7", "(", "9", "9", "9", ")", "1", "2", "3", "-", "4", "5", "-", "6", "x">> >>

NameText == << <<"Ivanov">> >>

\* a handler that stores the text under `key` and moves to the next step
registration_step(u, text, handler, step, key, value, next_step) ==
    /\ state[u] = step
    /\ context_data' = [context_data EXCEPT ![u] = update_data(@, key :> value)]
    /\ state' = [state EXCEPT ![u] = next_step]
    /\ last' = Ran(handler, u, text, "stored", NoApi, FALSE, FALSE)
    /\ UNCHANGED <<rows, nextId, clinic, nextPcode, reply, time_chosen>>

\* new_user
handle_new_user(u) ==
    /\ state' = [state EXCEPT ![u] = "RegistrationForm.lastName"]
    /\ last' = Ran("handle_new_user", u, <<>>, "prompt", NoApi, FALSE, FALSE)
    /\ UNCHANGED <<rows, nextId, clinic, nextPcode, wizVars>>

handle_registration_lastName(u, text) ==
    registration_step(u, text, "handle_registration_lastName", "RegistrationForm.lastName",
                      "reg_lastName", JText(text), "RegistrationForm.firstName")

handle_registration_firstName(u, text) ==
    registration_step(u, text, "handle_registration_firstName", "RegistrationForm.firstName",
                      "reg_firstName", JText(text), "RegistrationForm.middleName")

\* "-" stands for no middle name
handle_registration_middleName(u, text) ==
    registration_step(u, text, "handle_registration_middleName", "RegistrationForm.middleName",
                      "reg_middleName",
                      IF text # << <<"-">> >> THEN JText(text) ELSE [t |-> "null", v |-> <<>>],
                      "RegistrationForm.birthDate")

handle_registration_birthDate(u, text) ==
    registration_step(u, text, "handle_registration_birthDate", "RegistrationForm.birthDate",
                      "reg_birthDate", JText(text), "RegistrationForm.email")

handle_registration_email(u, text) ==
    registration_step(u, text, "handle_registration_email", "RegistrationForm.email",
                      "reg_email", JText(text), "RegistrationForm.phone")

\* a text message while the step marker is RegistrationForm.phone
handle_registration_phone(u, text) ==
    /\ state[u] = "RegistrationForm.phone"
    /\ IF ~validate_phone(text)
       THEN /\ last' = Ran("handle_registration_phone", u, text, "invalid_phone",
                           NoApi, FALSE, FALSE)
            /\ UNCHANGED <<rows, nextId, state, clinic, nextPcode, wizVars>>
       ELSE registration_step(u, text, "handle_registration_phone", "RegistrationForm.phone",
                              "reg_phone", JText(text), "RegistrationForm.snils")

\* the dialogues are followed for one user
FormUsers == {u \in Users : \A v \in Users : u <= v}

\* the two registration dialogues: the six-line form and the step-by-step one
NextForms ==
    \/ /\ \E u \in FormUsers : handle_lk_registration_button(u)
       /\ UNCHANGED <<schedVars, pageVars, taskVars, wizVars>>
    \/ /\ \E u \in FormUsers, text \in RegTexts : handle_lk_registration_data(u, text)
       /\ UNCHANGED <<schedVars, pageVars, taskVars, wizVars>>
    \/ /\ \E u \in FormUsers : handle_new_user(u)
       /\ UNCHANGED <<schedVars, pageVars, taskVars>>
    \/ /\ \E u \in FormUsers : handle_registration_lastName(u, NameText)
       /\ UNCHANGED <<schedVars, pageVars, taskVars>>
    \/ /\ \E u \in FormUsers : handle_registration_firstName(u, NameText)
       /\ UNCHANGED <<schedVars, pageVars, taskVars>>
    \/ /\ \E u \in FormUsers, text \in {NameText, << <<"-">> >>} : handle_registration_middleName(u, text)
       /\ UNCHANGED <<schedVars, pageVars, taskVars>>
    \/ /\ \E u \in FormUsers : handle_registration_birthDate(u, << <<"1990-01-15">> >>)
       /\ UNCHANGED <<schedVars, pageVars, taskVars>>
    \/ /\ \E u \in FormUsers : handle_registration_email(u, << <<"a@x">> >>)
       /\ UNCHANGED <<schedVars, pageVars, taskVars>>
    \* the pattern's text; with a trailing newline; without "+7"; with a letter;
    \* twice on two lines; with a trailing space
    \/ /\ \E u \in FormUsers, text \in
               {PhoneGood,
                PhoneGood \o << <<>> >>,
                << <<"8", "(", "9", "9", "9", ")", "1", "2", "3", "-", "4", "5", "-",
                     "6", "7">> >>,
                PhoneLetters,
                PhoneGood \o PhoneGood,
                << <<"+", "7", "(", "9", "9", "9", ")", "1", "2", "3", "-", "4", "5",
                     "-", "6", "7", WS>> >>} :
             handle_registration_phone(u, text)
       /\ UNCHANGED <<schedVars, pageVars, taskVars>>

SpecForms == Init /\ [][NextForms]_vars

----------------------------------------------------------------------------
(* Claims about invalid input *)

\* the text has six non-empty lines and the fourth is a YYYY-MM-DD date
WellFormedRegistration(text) ==
    LET filled == {i \in 1..Len(text) : \E k \in 1..Len(text[i]) : text[i][k] # WS}
    IN /\ Cardinality(filled) >= 6
       /\ \E i \in filled :
            /\ Cardinality({j \in filled : j < i}) = 3
            /\ \E k \in 1..Len(text[i]) :
                 /\ text[i][k] \in {"1990-01-15", "2000-02-29"}
                 /\ \A m \in 1..Len(text[i]) : m # k => text[i][m] = WS

\* the text is +7(ddd)ddd-dd-dd
WellFormedPhone(text) ==
    /\ Len(text) \in {1, 2}
    /\ Len(text) = 2 => text[2] = <<>>
    /\ Len(text[1]) = Len(PhonePattern)
    /\ \A i \in 1..Len(PhonePattern) :
         IF PhonePattern[i] = "d" THEN text[1][i] \in Digits
         ELSE text[1][i] = PhonePattern[i]

InvalidRegistrationInput ==
    \/ /\ last'.handler = "handle_lk_registration_data"
       /\ ~WellFormedRegistration(last'.text)
    \/ /\ last'.handler = "handle_registration_phone"
       /\ ~WellFormedPhone(last'.text)

\* C13: a registration message with fewer than six non-empty lines or with
\* a fourth line that is no YYYY-MM-DD date, and a phone that does not match
\* the phone pattern, each leave the step marker, the scratch state and the
\* database as they were and trigger no call to the clinic.
C13_InvalidRegistrationInputKeepsStep ==
    [][ InvalidRegistrationInput
        => /\ state' = state
           /\ context_data' = context_data
           /\ rows' = rows
           /\ clinic' = clinic /\ nextPcode' = nextPcode
           /\ last'.api = NoApi ]_vars

C13_Witness ==
    /\ last.handler = "handle_registration_phone"
    /\ last.outcome = "invalid_phone"
    /\ last.text = PhoneLetters
    /\ state[last.user] = "RegistrationForm.phone"
    /\ "reg_email" \in DOMAIN context_data[last.user]
    /\ "reg_phone" \notin DOMAIN context_data[last.user]

\* C23: validate_phone accepts a text if and only if the whole text is
\* +7(DDD)DDD-DD-DD with decimal digits D, nothing before it and nothing
\* after it (no second line, no trailing newline).
C23_PhoneAcceptedIffWholeForm ==
    last.handler = "handle_registration_phone"
    => (last.outcome = "stored" <=> Len(last.text) = 1 /\ WellFormedPhone(last.text))

----------------------------------------------------------------------------
(* The appointment dialogue: branch, department, doctor, time, confirmation *)

MaxFetched == 6      \* length of the longest list the clinic answers

\* an element of a fetched list: branch.get('id'), department.get('id'),
\* doctor.get('dcode')
ListItem(key, i) == JDict(key :> JInt(i))

\* get_branches / get_departments / get_doctors: the call raises (network
\* error, timeout), or returns data.get("data", []): a list, or None when
\* the body holds "data": null
FetchOutcomes(key) ==
    {[raised |-> TRUE, list |-> JNull], [raised |-> FALSE, list |-> JNull]}
    \cup {[raised |-> FALSE, list |-> JList([i \in 1..n |-> ListItem(key, i)])] : n \in {0, MaxFetched}}

\* the id part of a payload: payload.split('_')[-1]
IdChars(n) == <<48 + n>>
IdPayloads == {IdChars(1), IdChars(MaxFetched + 2)}

\* int(payload.split('_')[-1]) of a *_page_ payload: a number, or ValueError
PagePayloads ==
    {[numeric |-> TRUE, value |-> p] : p \in -1..(MaxFetched \div BRANCHES_PER_PAGE + 2)}
    \cup {[numeric |-> FALSE, value |-> 0]}

\* for x in xs: if str(x.get(key, default)) == id: found = x; break
RECURSIVE find_by(_, _, _, _)
find_by(items, key, default, id) ==
    IF items = <<>> THEN JNull
    ELSE IF PyStr(DictGet(Head(items), key, default)) = id THEN Head(items)
    ELSE find_by(Tail(items), key, default, id)

\* the name look-ups `for x in data.get(key, [])` raise TypeError when a
\* list stored under one of the keys is None
names_raise(d, keys) ==
    \E key \in keys : Iterate(ctx_get(d, key, JList(<<>>))).raised

RenderRaised(d, fetches) ==
    [raised |-> TRUE, data |-> d, fetches |-> fetches, menu |-> NoKeyboard]

\* the part of create_*_keyboard after the list is at hand: len(), the
\* clamped page is stored, the page is built
render_page(kind, d, list, page, page_key, per_page, fetches) ==
    IF ~IsList(list) THEN RenderRaised(d, fetches)
    ELSE LET kb == paged_keyboard(kind, list.v, page, per_page) IN
         [raised |-> FALSE, data |-> update_data(d, page_key :> JInt(kb.page)),
          fetches |-> fetches, menu |-> kb]

create_branches_keyboard(d, page, fetch) ==
    LET branches == ctx_get(d, "branches_list", JNull) IN
    IF Truthy(branches)
    THEN render_page("branches", d, branches, page, "branches_page", BRANCHES_PER_PAGE, 0)
    ELSE IF fetch.raised THEN RenderRaised(d, 1)
    ELSE render_page("branches",
                     update_data(d, "branches_list" :> fetch.list
                                    @@ "branches_page" :> JInt(0)),
                     fetch.list, page, "branches_page", BRANCHES_PER_PAGE, 1)

create_departments_keyboard(d, page, fetch) ==
    LET departments == ctx_get(d, "departments_list", JNull)
        branch_id == ctx_get(d, "selected_branch_id", JNull)
        cached_branch_id == ctx_get(d, "departments_cached_branch_id", JNull)
    IN
    IF Truthy(departments) /\ cached_branch_id = branch_id
    THEN render_page("departments", d, departments, page, "departments_page",
                     DEPARTMENTS_PER_PAGE, 0)
    ELSE IF fetch.raised THEN RenderRaised(d, 1)
    ELSE render_page("departments",
                     update_data(d, "departments_list" :> fetch.list
                                    @@ "departments_page" :> JInt(0)
                                    @@ "departments_cached_branch_id" :> branch_id),
                     fetch.list, page, "departments_page", DEPARTMENTS_PER_PAGE, 1)

create_doctors_keyboard(d, page, fetch) ==
    LET doctors == ctx_get(d, "doctors_list", JNull)
        branch_id == ctx_get(d, "selected_branch_id", JNull)
        department_id == ctx_get(d, "selected_department_id", JNull)
        cached_branch_id == ctx_get(d, "doctors_cached_branch_id", JNull)
        cached_department_id == ctx_get(d, "doctors_cached_department_id", JNull)
    IN
    IF Truthy(doctors) /\ cached_branch_id = branch_id
                       /\ cached_department_id = department_id
    THEN render_page("doctors", d, doctors, page, "doctors_page", DOCTORS_PER_PAGE, 0)
    ELSE IF fetch.raised THEN RenderRaised(d, 1)
    ELSE render_page("doctors",
                     update_data(d, "doctors_list" :> fetch.list
                                    @@ "doctors_page" :> JInt(0)
                                    @@ "doctors_cached_branch_id" :> branch_id
                                    @@ "doctors_cached_department_id" :> department_id),
                     fetch.list, page, "doctors_page", DOCTORS_PER_PAGE, 1)

\* a keyboard that is not a paginated list (calendar, confirmation, result)
OtherKeyboard(kind) == [NoKeyboard EXCEPT !.kind = kind]

Did(handler, outcome, escaped, fetches, reserves, replied, main_menu, requested, menu) ==
    [handler |-> handler, outcome |-> outcome, escaped |-> escaped,
     fetches |-> fetches, reserves |-> reserves, replied |-> replied,
     main_menu |-> main_menu, requested |-> requested, menu |-> menu,
     sent |-> <<>>]

\* the exception leaves the handler: nothing is answered
Escaped(handler, fetches, requested) ==
    Did(handler, "raised", TRUE, fetches, 0, FALSE, FALSE, requested, NoKeyboard)

\* the paginated menu is answered
Shown(handler, r, requested) ==
    Did(handler, "shown", FALSE, r.fetches, 0, TRUE, FALSE, requested, r.menu)

\* a text without a keyboard is answered
NotFound(handler) ==
    Did(handler, "not_found", FALSE, 0, 0, TRUE, FALSE, 0, NoKeyboard)

\* the handler's effect on the user's scratch dict and what it answered
Effect(u, d, did) ==
    /\ context_data' = [context_data EXCEPT ![u] = d]
    /\ reply' = did

\* btn_make_appointment
handle_make_appointment_button(u, fetch) ==
    LET h == "handle_make_appointment_button"
        user == get_by_max_id(rows, u)
        d == delete_messages(context_data[u])
        r == create_branches_keyboard(
                 update_data(d, "branches_list" :> JNull @@ "branches_page" :> JInt(0)),
                 0, fetch)
    IN
    /\ UNCHANGED time_chosen
    /\ IF user.kind = "MultipleResultsFound" THEN Effect(u, d, Escaped(h, 0, 0))
       ELSE IF user.kind = "none"
       THEN Effect(u, d, Did(h, "not_registered", FALSE, 0, 0, TRUE, TRUE, 0, NoKeyboard))
       ELSE IF r.raised THEN Effect(u, r.data, Escaped(h, r.fetches, 0))
       ELSE Effect(u, r.data, Shown(h, r, 0))

\* branches_page_<n>
handle_branches_pagination(u, page, fetch) ==
    LET h == "handle_branches_pagination"
        d == context_data[u]
        r == create_branches_keyboard(d, page.value, fetch)
    IN
    /\ UNCHANGED time_chosen
    /\ IF ~page.numeric THEN Effect(u, d, Escaped(h, 0, 0))
       ELSE IF r.raised THEN Effect(u, r.data, Escaped(h, r.fetches, page.value))
       ELSE Effect(u, r.data, Shown(h, r, page.value))

\* the lists of the branch left behind stay in the scratch dict
clear_nothing(d) == d

\* the branch changed: the data about departments and doctors is cleared
clear_branch_lists(d) ==
    update_data(d, "departments_list" :> JNull
                   @@ "departments_page" :> JInt(0)
                   @@ "departments_cached_branch_id" :> JNull
                   @@ "doctors_list" :> JNull
                   @@ "doctors_page" :> JInt(0)
                   @@ "doctors_cached_branch_id" :> JNull
                   @@ "doctors_cached_department_id" :> JNull)

\* branch_<id>
handle_branch_selection(u, branch_id, fetch) ==
    LET h == "handle_branch_selection"
        d == context_data[u]
        branches == Iterate(ctx_get(d, "branches_list", JList(<<>>)))
        selected_branch == find_by(branches.items, "id", JNull, branch_id)
        d1 == update_data(d, "selected_branch_id" :> JStr(branch_id))
        d2 == clear_branch_lists(d1)
        r == create_departments_keyboard(d2, 0, fetch)
    IN
    /\ time_chosen' = IF ~branches.raised /\ Truthy(selected_branch)
                      THEN [time_chosen EXCEPT !.department_since_branch = FALSE]
                      ELSE time_chosen
    /\ IF branches.raised THEN Effect(u, d, Escaped(h, 0, 0))
       ELSE IF ~Truthy(selected_branch) THEN Effect(u, d, NotFound(h))
       ELSE IF r.raised THEN Effect(u, r.data, Escaped(h, r.fetches, 0))
       ELSE Effect(u, r.data, Shown(h, r, 0))

\* departments_page_<n>
handle_departments_pagination(u, page, fetch) ==
    LET h == "handle_departments_pagination"
        d == context_data[u]
        r == create_departments_keyboard(d, page.value, fetch)
    IN
    /\ UNCHANGED time_chosen
    /\ IF ~page.numeric THEN Effect(u, d, Escaped(h, 0, 0))
       ELSE IF r.raised THEN Effect(u, r.data, Escaped(h, r.fetches, page.value))
       ELSE IF names_raise(r.data, {"branches_list"})
       THEN Effect(u, r.data, Escaped(h, r.fetches, page.value))
       ELSE Effect(u, r.data, Shown(h, r, page.value))

\* department_<id>
handle_department_selection(u, department_id, fetch) ==
    LET h == "handle_department_selection"
        d == context_data[u]
        departments == Iterate(ctx_get(d, "departments_list", JList(<<>>)))
        selected_department == find_by(departments.items, "id", JNull, department_id)
        d1 == update_data(d, "selected_department_id" :> JStr(department_id))
        d2 == update_data(d1, "doctors_list" :> JNull
                              @@ "doctors_page" :> JInt(0)
                              @@ "doctors_cached_department_id" :> JNull)
        r == create_doctors_keyboard(d2, 0, fetch)
    IN
    /\ time_chosen' = IF ~departments.raised /\ Truthy(selected_department)
                      THEN [time_chosen EXCEPT !.department_since_branch = TRUE]
                      ELSE time_chosen
    /\ IF departments.raised THEN Effect(u, d, Escaped(h, 0, 0))
       ELSE IF ~Truthy(selected_department) THEN Effect(u, d, NotFound(h))
       ELSE IF names_raise(d, {"branches_list"}) THEN Effect(u, d2, Escaped(h, 0, 0))
       ELSE IF r.raised THEN Effect(u, r.data, Escaped(h, r.fetches, 0))
       ELSE Effect(u, r.data, Shown(h, r, 0))

\* doctors_page_<n>
handle_doctors_pagination(u, page, fetch) ==
    LET h == "handle_doctors_pagination"
        d == context_data[u]
        r == create_doctors_keyboard(d, page.value, fetch)
    IN
    /\ UNCHANGED time_chosen
    /\ IF ~page.numeric THEN Effect(u, d, Escaped(h, 0, 0))
       ELSE IF r.raised THEN Effect(u, r.data, Escaped(h, r.fetches, page.value))
       ELSE IF names_raise(r.data, {"branches_list", "departments_list"})
       THEN Effect(u, r.data, Escaped(h, r.fetches, page.value))
       ELSE Effect(u, r.data, Shown(h, r, page.value))

\* the id part of the payload of a doctor button: f'doctor_{doctor.get("dcode")}'
doctor_payload(doctor) == PyStr(DictGet(doctor, "dcode", JNull))

\* doctor_<dcode>
handle_doctor_selection(u, dcode) ==
    LET h == "handle_doctor_selection"
        d == context_data[u]
        doctors == Iterate(ctx_get(d, "doctors_list", JList(<<>>)))
        selected_doctor == find_by(doctors.items, "dcode", JStr(<<>>), dcode)
        doctor_code == DictGet(selected_doctor, "dcode", JNull)
        doctor_id == IF Truthy(DictGet(selected_doctor, "id", JNull))
                     THEN DictGet(selected_doctor, "id", JNull) ELSE doctor_code
        d1 == update_data(d, "selected_doctor_id" :> doctor_id
                             @@ "selected_doctor_dcode" :> doctor_code)
    IN
    /\ time_chosen' = IF ~doctors.raised /\ Truthy(selected_doctor)
                      THEN [time_chosen EXCEPT !.since_doctor = FALSE]
                      ELSE time_chosen
    /\ IF doctors.raised THEN Effect(u, d, Escaped(h, 0, 0))
       ELSE IF ~Truthy(selected_doctor) THEN Effect(u, d, NotFound(h))
       ELSE IF names_raise(d, {"branches_list", "departments_list"})
       THEN Effect(u, d1, Escaped(h, 0, 0))
       ELSE Effect(u, d1, Did(h, "calendar", FALSE, 0, 0, TRUE, FALSE, 0,
                              OtherKeyboard("calendar")))

\* back_to_branches
handle_back_to_branches(u, fetch) ==
    LET h == "handle_back_to_branches"
        d == context_data[u]
        current_page == ctx_get(d, "branches_page", JInt(0)).v
        r == create_branches_keyboard(d, current_page, fetch)
    IN
    /\ UNCHANGED time_chosen
    /\ IF r.raised THEN Effect(u, r.data, Escaped(h, r.fetches, current_page))
       ELSE Effect(u, r.data, Shown(h, r, current_page))

\* back_to_departments
handle_back_to_departments(u, fetch) ==
    LET h == "handle_back_to_departments"
        d == context_data[u]
        current_page == ctx_get(d, "departments_page", JInt(0)).v
        r == create_departments_keyboard(d, current_page, fetch)
    IN
    /\ UNCHANGED time_chosen
    /\ IF names_raise(d, {"branches_list"}) THEN Effect(u, d, Escaped(h, 0, current_page))
       ELSE IF r.raised THEN Effect(u, r.data, Escaped(h, r.fetches, current_page))
       ELSE Effect(u, r.data, Shown(h, r, current_page))

\* back_to_doctors
handle_back_to_doctors(u, fetch) ==
    LET h == "handle_back_to_doctors"
        d == context_data[u]
        current_page == ctx_get(d, "doctors_page", JInt(0)).v
        r == create_doctors_keyboard(d, current_page, fetch)
    IN
    /\ UNCHANGED time_chosen
    /\ IF names_raise(d, {"branches_list", "departments_list"})
       THEN Effect(u, d, Escaped(h, 0, current_page))
       ELSE IF r.raised THEN Effect(u, r.data, Escaped(h, r.fetches, current_page))
       ELSE Effect(u, r.data, Shown(h, r, current_page))

\* str.replace(pat, ''): every occurrence of pat is removed
RECURSIVE Removed(_, _)
Removed(str, pat) ==
    IF Len(str) < Len(pat) \/ pat = <<>> THEN str
    ELSE IF SubSeq(str, 1, Len(pat)) = pat
         THEN Removed(SubSeq(str, Len(pat) + 1, Len(str)), pat)
         ELSE <<Head(str)>> \o Removed(Tail(str), pat)

\* str.split(c)
RECURSIVE Split(_, _)
Split(str, c) ==
    IF \A i \in 1..Len(str) : str[i] # c THEN <<str>>
    ELSE <<BeforeFirst(str, c)>>
         \o Split(SubSeq(str, Len(BeforeFirst(str, c)) + 2, Len(str)), c)

\* the characters of a date key of the response (YYYYMMDD)
DateText(work_date) ==
    CASE work_date = "20260121" -> <<50, 48, 50, 54, 48, 49, 50, 49>>
      [] work_date = "20260122" -> <<50, 48, 50, 54, 48, 49, 50, 50>>

\* the payload of the button of a free interval:
\* f"time_{time_start.replace(':', '')}_{schedident}_{work_date}"
time_payload(interval_info) ==
    <<116, 105, 109, 101, 95>>
    \o Removed(get_start_time(interval_info.time), <<Ch.colon>>)
    \o <<Ch.underscore>> \o PyStr(interval_info.schedident)
    \o <<Ch.underscore>> \o DateText(interval_info.workDate)

\* the time is stored as the payload carries it
restore_time_skipped(time_str) == time_str

\* 0930 -> 09:30
restore_time(time_str) ==
    IF Len(time_str) = 4
    THEN SubSeq(time_str, 1, 2) \o <<Ch.colon>> \o SubSeq(time_str, 3, 4)
    ELSE time_str

\* time_<HHMM>_<schedident>_<YYYYMMDD>, or the old time_<HHMM>
handle_time_selection(u, payload) ==
    LET h == "handle_time_selection"
        d == context_data[u]
        bare == Removed(payload, <<116, 105, 109, 101, 95>>)
        payload_parts == Split(bare, Ch.underscore)
        d1 == IF Len(payload_parts) >= 3
              THEN update_data(d, "selected_time" :> JStr(restore_time(payload_parts[1]))
                                  @@ "selected_schedident" :> JStr(payload_parts[2])
                                  @@ "selected_work_date" :> JStr(payload_parts[3]))
              ELSE update_data(d, "selected_time" :> JStr(restore_time(bare)))
    IN
    /\ time_chosen' = [time_chosen EXCEPT
                         !.since_reservation = TRUE,
                         !.since_doctor = (Len(payload_parts) >= 3) \/ @]
    /\ IF names_raise(d1, {"branches_list", "departments_list", "doctors_list"})
       THEN Effect(u, d1, Escaped(h, 0, 0))
       ELSE Effect(u, d1, Did(h, "confirm_prompt", FALSE, 0, 0, TRUE, FALSE, 0,
                              OtherKeyboard("confirm")))

\* what the clinic does during one btn_confirm_reservation: authorize_user,
\* then GET /api/reservation/intervals (it raises, or answers a status and a
\* body: none, a flat list of intervals, a dict with the key 'intervals', or
\* the data -> workdates -> date -> block -> intervals nesting of the time
\* menu), then POST reserve; status 0 stands for a call that raises
ConfirmAnswers ==
    LET flat(isFree) == JDict("schedident" :> JInt(41)
                              @@ "startInterval" :> JStr(<<48, 57, 58, 51, 48>>)
                              @@ "isFree" :> JBool(isFree))
        nested(isFree) == Response(<<[date |-> "20260121", dcode |-> 1,
                                      interval |-> Interval(Times.T0930, isFree)]>>, "ok")
        answer(authorize, status, json, reserve) ==
            [authorize |-> authorize, reserve |-> reserve,
             intervals |-> [raised |-> status = 0, status |-> status, json |-> json]]
    IN {answer(authorize, 200, JList(<<flat(TRUE)>>), "ok") :
          authorize \in {"raises", "failed", "no_cookies"}}
       \cup {answer("ok", 0, JNull, "ok"), answer("ok", 200, JNull, "ok"),
             answer("ok", 500, JList(<<flat(TRUE)>>), "ok")}
       \cup {answer("ok", 200, json, reserve) :
               json \in {JList(<<flat(TRUE)>>), JList(<<flat(FALSE)>>),
                         JDict("intervals" :> JList(<<flat(FALSE)>>)),
                         nested(TRUE), nested(FALSE)},
               reserve \in {"raises", "failed", "ok"}}

\* the first interval of the fresh response that matches the selection: by
\* schedident and start time, else by start time alone; raised when the
\* intervals cannot be walked
find_interval(intervals, selected_schedident, selected_time) ==
    LET Or(a, b) == IF Truthy(a) THEN a ELSE b
        time_of(x) == Or(DictGet(x, "startInterval", JNull), DictGet(x, "start", JNull))
        depnum_of(x) == Or(DictGet(x, "depnum", JNull), DictGet(x, "depNum", JNull))
        first(intervals_list, S) ==
            IF S = {} THEN JNull
            ELSE intervals_list[CHOOSE i \in S : \A k \in S : i <= k]
        exact(intervals_list) ==
            first(intervals_list,
                  {i \in 1..Len(intervals_list) :
                     /\ PyStr(Or(DictGet(intervals_list[i], "schedident", JNull),
                                 DictGet(intervals_list[i], "schedIdent", JNull)))
                        = PyStr(selected_schedident)
                     /\ time_of(intervals_list[i]) = selected_time})
        by_time(intervals_list) ==
            first(intervals_list,
                  {i \in 1..Len(intervals_list) :
                     time_of(intervals_list[i]) = selected_time})
        prefer(e, t) == IF e # JNull /\ Truthy(depnum_of(e)) THEN e
                        ELSE IF t # JNull THEN t ELSE e
        answer(raised, found) ==
            IF raised THEN [raised |-> TRUE, found |-> JNull, depnum |-> JNull]
            ELSE [raised |-> FALSE, found |-> found,
                  depnum |-> IF found = JNull THEN JNull ELSE depnum_of(found)]
        search(intervals_list) == prefer(exact(intervals_list), by_time(intervals_list))
        walk(got) ==
            answer(IF IsList(got) THEN \E i \in 1..Len(got.v) : ~IsDict(got.v[i])
                   ELSE ~(got.t \in {"dict", "str"} /\ ~Truthy(got)),
                   search(IF IsList(got) THEN got.v ELSE <<>>))
    IN walk(IF IsList(intervals) THEN intervals
            ELSE IF IsDict(intervals) THEN DictGet(intervals, "intervals", JList(<<>>))
            ELSE JList(<<>>))

\* the cookie check is left out
session_assumed(clinic_does) == clinic_does.authorize \in {"ok", "no_cookies"}

\* result.get('success') and the client holds session cookies
session_obtained(clinic_does) == clinic_does.authorize = "ok"

\* the four selections a reservation needs
selections_complete(d) ==
    /\ Truthy(ctx_get(d, "selected_time", JNull))
    /\ Truthy(ctx_get(d, "selected_work_date", JNull))
    /\ Truthy(ctx_get(d, "selected_schedident", JNull))
    /\ Truthy(ctx_get(d, "selected_doctor_dcode", JNull))

\* what handle_confirm_reservation and handle_login_password do with the
\* session: the fresh intervals are fetched and searched, a busy interval
\* stops the handler, else the reserve request is built and sent
reserve_attempt(u, d, clinic_does, cllogin, clpassword) ==
    LET selected_time == ctx_get(d, "selected_time", JNull)
        selected_work_date == ctx_get(d, "selected_work_date", JNull)
        selected_schedident == ctx_get(d, "selected_schedident", JNull)
        selected_doctor_dcode == ctx_get(d, "selected_doctor_dcode", JNull)
        selected_branch_id == ctx_get(d, "selected_branch_id", JNull)
        selected_department_id == ctx_get(d, "selected_department_id", JNull)
        \* datetime.strptime(selected_work_date, "%Y%m%d")
        date_ok == selected_work_date.t = "str"
                   /\ selected_work_date.v \in {DateText("20260121"), DateText("20260122")}
        \* int(x)
        int_ok(x) == \/ x.t = "int"
                     \/ x.t = "str" /\ x.v # <<>> /\ \A i \in 1..Len(x.v) : x.v[i] \in 48..57
        ints_ok(depnum) ==
            /\ int_ok(selected_doctor_dcode) /\ int_ok(selected_schedident)
            /\ (Truthy(depnum) => int_ok(depnum))
            /\ (Truthy(selected_branch_id) => int_ok(selected_branch_id))
        reserve_data(depnum) ==
            [id_max |-> u, cllogin |-> cllogin, clpassword |-> clpassword,
             date |-> selected_work_date, dcode |-> selected_doctor_dcode,
             depnum |-> depnum, filial |-> selected_branch_id,
             st |-> selected_time, schedident |-> selected_schedident]
        request(depnum) ==
            IF ints_ok(depnum)
            THEN [outcome |-> "reserve", sent |-> <<reserve_data(depnum)>>]
            ELSE [outcome |-> "exception", sent |-> <<>>]
        with(f) ==
            IF f.raised THEN [outcome |-> "exception", sent |-> <<>>]
            ELSE IF Truthy(f.found) /\ ~Truthy(DictGet(f.found, "isFree", JBool(TRUE)))
            THEN [outcome |-> "time_busy", sent |-> <<>>]
            ELSE request(IF Truthy(f.depnum) THEN f.depnum ELSE selected_department_id)
    IN IF ~date_ok \/ clinic_does.intervals.raised
       THEN [outcome |-> "exception", sent |-> <<>>]
       ELSE IF clinic_does.intervals.status # 200 \/ ~Truthy(clinic_does.intervals.json)
       THEN [outcome |-> "intervals_failed", sent |-> <<>>]
       ELSE with(find_interval(clinic_does.intervals.json, selected_schedident,
                               selected_time))

\* btn_confirm_reservation
handle_confirm_reservation(u, clinic_does) ==
    LET h == "handle_confirm_reservation"
        user == get_by_max_id(rows, u)
        d == context_data[u]
        a == reserve_attempt(u, d, clinic_does, user.row.cllogin, user.row.clpassword)
        before == IF clinic_does.authorize = "raises" THEN "auth_raises"
                  ELSE IF clinic_does.authorize = "failed" THEN "auth_failed"
                  ELSE IF ~session_obtained(clinic_does) THEN "no_cookies"
                  ELSE a.outcome
        outcome == IF before # "reserve" THEN before
                   ELSE IF clinic_does.reserve = "raises" THEN "reserve_raises"
                   ELSE IF names_raise(d, {"branches_list", "departments_list",
                                           "doctors_list"})
                   THEN "exception_after_reserve"
                   ELSE IF clinic_does.reserve = "failed" THEN "reserve_failed"
                   ELSE "reserved"
        sent == IF before = "reserve" THEN a.sent ELSE <<>>
    IN
    IF user.kind = "MultipleResultsFound"
    THEN Effect(u, d, Escaped(h, 0, 0)) /\ UNCHANGED time_chosen
    ELSE IF user.kind = "none"
    THEN /\ Effect(u, d, Did(h, "not_registered", FALSE, 0, 0, TRUE, TRUE, 0, NoKeyboard))
         /\ UNCHANGED time_chosen
    ELSE IF ~selections_complete(d)
    THEN /\ Effect(u, d, Did(h, "insufficient", FALSE, 0, 0, TRUE, TRUE, 0, NoKeyboard))
         /\ UNCHANGED time_chosen
    ELSE /\ time_chosen' = IF outcome = "reserved"
                           THEN [time_chosen EXCEPT !.since_reservation = FALSE]
                           ELSE time_chosen
         /\ Effect(u, d,
                   [Did(h, outcome, FALSE, 0, Len(sent), TRUE, outcome # "reserved", 0,
                        IF outcome = "reserved" THEN OtherKeyboard("reserved")
                        ELSE NoKeyboard)
                    EXCEPT !.sent = sent])

\* has_account
handle_has_account(u) ==
    /\ state' = [state EXCEPT ![u] = "LoginForm.username"]
    /\ Effect(u, context_data[u],
              Did("handle_has_account", "prompt", FALSE, 0, 0, TRUE, FALSE, 0, NoKeyboard))
    /\ UNCHANGED time_chosen

\* a text in the state LoginForm.username
handle_login_username(u, text) ==
    /\ state[u] = "LoginForm.username"
    /\ state' = [state EXCEPT ![u] = "LoginForm.password"]
    /\ Effect(u, update_data(context_data[u], "login_username" :> JText(text)),
              Did("handle_login_username", "prompt", FALSE, 0, 0, TRUE, FALSE, 0,
                  NoKeyboard))
    /\ UNCHANGED time_chosen

\* a text in the state LoginForm.password: the typed login and password are
\* authorized at the clinic and, when a time is selected, the reservation is
\* made in that session
handle_login_password(u, text, clinic_does) ==
    LET h == "handle_login_password"
        d == context_data[u]
        username == ctx_get(d, "login_username", JNull)
        success == clinic_does.authorize \in {"ok", "no_cookies"}
        shown == success /\ ~create_keyboard_raises(rows, u)
        d1 == update_data(d, "authenticated" :> JBool(TRUE)
                             @@ "user_id" :> JNull
                             @@ "session_data" :> JDict("success" :> JBool(TRUE))
                             @@ "auth_cookies" :>
                                (IF session_obtained(clinic_does)
                                 THEN JDict("session" :> JStr(<<49>>)) ELSE JDict(<<>>)))
        a == reserve_attempt(u, d1, clinic_does, username.v, text)
        outcome == IF clinic_does.authorize = "raises" THEN "auth_raises"
                   ELSE IF ~success THEN "auth_failed"
                   ELSE IF ~shown THEN "exception"
                   ELSE IF ~selections_complete(d1) THEN "logged_in"
                   ELSE IF ~session_obtained(clinic_does) THEN "no_cookies"
                   ELSE IF a.outcome # "reserve" THEN a.outcome
                   ELSE IF clinic_does.reserve = "raises" THEN "reserve_raises"
                   ELSE IF clinic_does.reserve = "failed" THEN "reserve_failed"
                   ELSE IF names_raise(d1, {"branches_list", "departments_list",
                                            "doctors_list"})
                   THEN "exception_after_reserve"
                   ELSE "reserved"
        sent == IF outcome \in {"reserve_raises", "reserve_failed",
                                "exception_after_reserve", "reserved"}
                THEN a.sent ELSE <<>>
    IN
    /\ state[u] = "LoginForm.password"
    /\ state' = IF success THEN [state EXCEPT ![u] = NoState] ELSE state
    /\ time_chosen' = IF outcome = "reserved"
                      THEN [time_chosen EXCEPT !.since_reservation = FALSE]
                      ELSE time_chosen
    /\ Effect(u, IF shown THEN d1 ELSE d,
              [Did(h, outcome, FALSE, 0, Len(sent), TRUE, shown, 0, NoKeyboard)
               EXCEPT !.sent = sent])

\* /clear
handle_clear_command(u) ==
    /\ context_data' = [context_data EXCEPT ![u] = <<>>]
    /\ state' = [state EXCEPT ![u] = NoState]
    /\ reply' = Did("handle_clear_command", "cleared", FALSE, 0, 0, TRUE, FALSE, 0,
                    NoKeyboard)
    /\ UNCHANGED time_chosen

----------------------------------------------------------------------------
(* Current appointments: the records view and the cancel button *)

\* what the clinic does during one records view: authorize_user, then
\* get_records_list (status 0 stands for a call that raises); a record
\* carries an id and a branch, or a schedid alone
RecordsAnswers ==
    LET rec == JDict("id" :> JInt(7) @@ "filial" :> JInt(1))
        bare == JDict("schedid" :> JInt(8))
        answer(authorize, status, json) ==
            [authorize |-> authorize,
             records |-> [raised |-> status = 0, status |-> status, json |-> json]]
    IN {answer(authorize, 200, JDict("data" :> JList(<<rec>>))) :
          authorize \in {"raises", "failed", "no_cookies"}}
       \cup {answer("ok", 0, JNull), answer("ok", 200, JNull),
             answer("ok", 500, JDict("data" :> JList(<<rec>>))),
             answer("ok", 200, JList(<<rec>>))}
       \cup {answer("ok", 200, JDict("data" :> data)) :
               data \in {JNull, JList(<<>>), JList(<<rec>>), JList(<<rec, bare>>)}}

\* current_data['delete_messages_id'].append(mid) for every mid, set_data
remember_messages(d, mids) ==
    update_data(d, "delete_messages_id" :>
                   JList(ctx_get(d, "delete_messages_id", JList(<<>>)).v
                         \o [i \in 1..Len(mids) |-> JInt(mids[i])]))

\* f'cancel_record_{record_id}_{branch_id}' of the records that carry both
RECURSIVE cancel_payloads(_)
cancel_payloads(data) ==
    IF data = <<>> THEN <<>>
    ELSE LET Or(a, b) == IF Truthy(a) THEN a ELSE b
             rec == Head(data)
             record_id == Or(DictGet(rec, "id", JNull),
                             Or(DictGet(rec, "recordId", JNull),
                                Or(DictGet(rec, "reservationId", JNull),
                                   DictGet(rec, "schedid", JNull))))
             branch_id == Or(DictGet(rec, "filial", JNull),
                             Or(DictGet(rec, "branchId", JNull),
                                DictGet(rec, "branch_id", JNull)))
             button(r, b) ==
                 IF Truthy(r) /\ Truthy(b)
                 THEN << <<99, 97, 110, 99, 101, 108, 95, 114, 101, 99, 111, 114, 100, 95>>
                         \o PyStr(r) \o <<Ch.underscore>> \o PyStr(b) >>
                 ELSE <<>>
         IN button(record_id, branch_id) \o cancel_payloads(Tail(data))

\* btn_current_appointment: _show_records
show_records(u, clinic_does) ==
    LET h == "_show_records"
        user == get_by_max_id(rows, u)
        d0 == delete_messages(context_data[u])
        failed(outcome, fetches) ==
            Effect(u, d0, Did(h, outcome, FALSE, fetches, 0, TRUE, TRUE, 0, NoKeyboard))
        \* the records are at hand: one message per record, then the back button
        answered(d1, data, fetches) ==
            IF ~Truthy(data)
            THEN Effect(u, remember_messages(d1, <<1>>),
                        Did(h, "no_records", FALSE, fetches, 0, TRUE, TRUE, 0, NoKeyboard))
            ELSE IF ~IsList(data) \/ \E i \in 1..Len(data.v) : ~IsDict(data.v[i])
            THEN Effect(u, d1, Did(h, "exception", FALSE, fetches, 0, TRUE, TRUE, 0,
                                   NoKeyboard))
            ELSE Effect(u, remember_messages(d1, [i \in 1..(Len(data.v) + 1) |-> i]),
                        Did(h, "shown", FALSE, fetches, 0, TRUE, FALSE, 0,
                            [NoKeyboard EXCEPT !.kind = "records",
                                               !.buttons = cancel_payloads(data.v)]))
        \* data = list_result.json.get('data') or []; set_data replaces the dict
        loaded(data) ==
            answered("records_data" :> data
                     @@ "records_cookies" :> JDict("session" :> JStr(<<49>>)),
                     data, 1)
        load(json) ==
            IF ~IsDict(json) THEN failed("exception", 1)
            ELSE loaded(IF Truthy(DictGet(json, "data", JNull))
                        THEN DictGet(json, "data", JNull) ELSE JList(<<>>))
    IN
    /\ UNCHANGED time_chosen
    /\ IF user.kind = "MultipleResultsFound" THEN Effect(u, d0, Escaped(h, 0, 0))
       ELSE IF user.kind = "none" THEN failed("not_registered", 0)
       ELSE IF Truthy(ctx_get(d0, "records_data", JNull))
       THEN answered(d0, ctx_get(d0, "records_data", JNull), 0)
       ELSE IF clinic_does.authorize = "raises" THEN failed("exception", 0)
       ELSE IF clinic_does.authorize = "failed" THEN failed("auth_failed", 0)
       ELSE IF ~session_obtained(clinic_does) THEN failed("no_cookies", 0)
       ELSE IF clinic_does.records.raised THEN failed("exception", 1)
       ELSE IF clinic_does.records.status # 200 \/ ~Truthy(clinic_does.records.json)
       THEN failed("load_failed", 1)
       ELSE load(clinic_does.records.json)

\* cancel_client.cancel_reservation(record_id, branch_id, ...): the client
\* class defines no such attribute, the call raises AttributeError
cancel_reservation(clinic_does) == [raised |-> TRUE, json |-> JNull]

\* cancel_record_<record_id>_<branch_id>
handle_cancel_record_button(u, payload, clinic_does) ==
    LET h == "handle_cancel_record_button"
        user == get_by_max_id(rows, u)
        d == context_data[u]
        parts == Split(Removed(payload, <<99, 97, 110, 99, 101, 108, 95, 114, 101, 99,
                                         111, 114, 100, 95>>), Ch.underscore)
        \* a text is answered, then the main menu
        said(outcome, d1) ==
            Effect(u, d1, Did(h, outcome, FALSE, 0, 0, TRUE, TRUE, 0, NoKeyboard))
        result(cancel_result) ==
            IF cancel_result.raised THEN said("exception", remember_messages(d, <<1>>))
            ELSE IF ~Truthy(cancel_result.json)
            THEN said("no_result", remember_messages(d, <<1>>))
            ELSE IF IsDict(cancel_result.json)
                    /\ DictGet(cancel_result.json, "success", JNull) = JBool(TRUE)
            THEN said("cancelled",
                      remember_messages(
                          [k \in DOMAIN d \ {"records_data", "records_cookies"} |-> d[k]],
                          <<1>>))
            ELSE said("refused", remember_messages(d, <<1>>))
    IN
    /\ UNCHANGED time_chosen
    /\ IF Len(parts) < 2 THEN said("bad_payload", d)
       ELSE IF parts[1] = <<>> \/ parts[2] = <<>> THEN said("bad_payload", d)
       ELSE IF user.kind = "MultipleResultsFound" THEN Effect(u, d, Escaped(h, 0, 0))
       ELSE IF user.kind = "none" THEN said("not_registered", d)
       ELSE IF clinic_does.authorize = "raises"
       THEN said("exception", remember_messages(d, <<1>>))
       ELSE IF clinic_does.authorize = "failed" THEN said("auth_failed", d)
       ELSE IF ~session_obtained(clinic_does) THEN said("no_cookies", d)
       ELSE result(cancel_reservation(clinic_does))

----------------------------------------------------------------------------
(* The appointment specification *)

\* the user is not registered, or has registered with the six-line form

InitBooking ==
    /\ InitTaskIdle
    /\ InitSchedIdle
    /\ InitPagesIdle
    /\ InitWizIdle
    /\ \/ InitDb
       \/ \E u \in FormUsers :
            /\ rows = save({}, 1, u, PyStrInt(1), parse_lk_registration_text(RegTextA))
            /\ nextId = 2
            /\ state = [v \in Users |-> NoState]
            /\ clinic = (PyStrInt(1) :> <<<<"a@x">>, <<"pwA">>>>)
            /\ nextPcode = 2
            /\ last = Ran("handle_lk_registration_data", u, RegTextA, "registered",
                          [kind |-> "result", exc |-> "", status |-> 200,
                           t |-> "dict", pcode |-> 1], TRUE, FALSE)

bookingFrame ==
    <<rows, nextId, clinic, nextPcode, last, schedVars, pageVars, taskVars>>

\* moving between the branch, department and doctor menus
NextBooking ==
    \/ /\ \E u \in FormUsers, fetch \in FetchOutcomes("id") :
             handle_make_appointment_button(u, fetch)
       /\ UNCHANGED <<state, bookingFrame>>
    \/ /\ \E u \in FormUsers, page \in PagePayloads, fetch \in FetchOutcomes("id") :
             handle_branches_pagination(u, page, fetch)
       /\ UNCHANGED <<state, bookingFrame>>
    \/ /\ \E u \in FormUsers, id \in IdPayloads \cup {IdChars(2)},
               fetch \in FetchOutcomes("id") :
             handle_branch_selection(u, id, fetch)
       /\ UNCHANGED <<state, bookingFrame>>
    \/ /\ \E u \in FormUsers, page \in PagePayloads, fetch \in FetchOutcomes("id") :
             handle_departments_pagination(u, page, fetch)
       /\ UNCHANGED <<state, bookingFrame>>
    \/ /\ \E u \in FormUsers, id \in IdPayloads, fetch \in FetchOutcomes("dcode") :
             handle_department_selection(u, id, fetch)
       /\ UNCHANGED <<state, bookingFrame>>
    \/ /\ \E u \in FormUsers, page \in PagePayloads, fetch \in FetchOutcomes("dcode") :
             handle_doctors_pagination(u, page, fetch)
       /\ UNCHANGED <<state, bookingFrame>>
    \/ /\ \E u \in FormUsers, dcode \in IdPayloads : handle_doctor_selection(u, dcode)
       /\ UNCHANGED <<state, bookingFrame>>
    \/ /\ \E u \in FormUsers, fetch \in FetchOutcomes("id") :
             handle_back_to_branches(u, fetch)
       /\ UNCHANGED <<state, bookingFrame>>
    \/ /\ \E u \in FormUsers, fetch \in FetchOutcomes("id") :
             handle_back_to_departments(u, fetch)
       /\ UNCHANGED <<state, bookingFrame>>
    \/ /\ \E u \in FormUsers, fetch \in FetchOutcomes("dcode") :
             handle_back_to_doctors(u, fetch)
       /\ UNCHANGED <<state, bookingFrame>>

SpecBooking == InitBooking /\ [][NextBooking]_vars

\* the way to a reservation: every list the clinic answers has one element,
\* or the call fails
FetchOne(key) ==
    {[raised |-> TRUE, list |-> JNull],
     [raised |-> FALSE, list |-> JList(<<ListItem(key, 1)>>)]}

\* from the main menu to the confirmation of a time
NextReserve ==
    \/ /\ \E u \in FormUsers, fetch \in FetchOne("id") :
             handle_make_appointment_button(u, fetch)
       /\ UNCHANGED <<state, bookingFrame>>
    \/ /\ \E u \in FormUsers, fetch \in FetchOne("id") :
             handle_branch_selection(u, IdChars(1), fetch)
       /\ UNCHANGED <<state, bookingFrame>>
    \/ /\ \E u \in FormUsers, fetch \in FetchOne("dcode") \cup
               {[raised |-> FALSE,
                 list |-> JList(<<ListItem("dcode", 1), ListItem("dcode", 2),
                                ListItem("id", 3)>>)]} :
             handle_department_selection(u, IdChars(1), fetch)
       /\ UNCHANGED <<state, bookingFrame>>
    \/ /\ \E u \in FormUsers, dcode \in IdPayloads : handle_doctor_selection(u, dcode)
       /\ UNCHANGED <<state, bookingFrame>>
    \/ /\ reply.menu.kind = "doctors"
       /\ \E u \in FormUsers, j \in 1..Len(reply.menu.buttons) :
             handle_doctor_selection(u, doctor_payload(reply.menu.buttons[j]))
       /\ UNCHANGED <<state, bookingFrame>>
    \/ /\ \E u \in FormUsers, payload \in
               {<<116, 105, 109, 101, 95, 48, 57, 51, 48, 95, 52, 49, 95,
                  50, 48, 50, 54, 48, 49, 50, 49>>,          \* time_0930_41_20260121
                <<116, 105, 109, 101, 95, 49, 48, 48, 48>>} : \* time_1000
             handle_time_selection(u, payload)
       /\ UNCHANGED <<state, bookingFrame>>
    \/ /\ \E u \in FormUsers, clinic_does \in ConfirmAnswers :
             handle_confirm_reservation(u, clinic_does)
       /\ UNCHANGED <<state, bookingFrame>>
    \/ /\ \E u \in FormUsers : handle_clear_command(u)
       /\ UNCHANGED bookingFrame

SpecReserve == InitBooking /\ [][NextReserve]_vars

\* the same, and the user may log in with a typed login and password at any
\* time
NextLogin ==
    \/ NextReserve
    \/ /\ \E u \in FormUsers : handle_has_account(u)
       /\ UNCHANGED bookingFrame
    \/ /\ \E u \in FormUsers : handle_login_username(u, <<"b@x">>)
       /\ UNCHANGED bookingFrame
    \/ /\ \E u \in FormUsers, clinic_does \in ConfirmAnswers :
             handle_login_password(u, <<"pwB">>, clinic_does)
       /\ UNCHANGED bookingFrame

SpecLogin == InitBooking /\ [][NextLogin]_vars

\* the step marker of one user: the buttons that set it, the text handlers
\* that wait for it, back_to_main and /start
NextMarker ==
    \/ /\ \E u \in FormUsers : handle_lk_registration_button(u)
       /\ UNCHANGED <<schedVars, pageVars, taskVars, wizVars>>
    \/ /\ \E u \in FormUsers, text \in RegTexts : handle_lk_registration_data(u, text)
       /\ UNCHANGED <<schedVars, pageVars, taskVars, wizVars>>
    \/ /\ \E u \in FormUsers : handle_change_credentials_button(u)
       /\ UNCHANGED <<schedVars, pageVars, taskVars, wizVars>>
    \/ /\ \E u \in FormUsers, text \in CredTexts : handle_change_credentials_data(u, text)
       /\ UNCHANGED <<schedVars, pageVars, taskVars, wizVars>>
    \/ /\ \E u \in FormUsers : handle_auth_button(u)
       /\ UNCHANGED <<schedVars, pageVars, taskVars, wizVars>>
    \/ /\ \E u \in FormUsers, text \in CredTexts : handle_auth_data(u, text)
       /\ UNCHANGED <<schedVars, pageVars, taskVars, wizVars>>
    \/ /\ \E u \in FormUsers : handle_has_account(u)
       /\ UNCHANGED bookingFrame
    \/ /\ \E u \in FormUsers : handle_login_username(u, <<"b@x">>)
       /\ UNCHANGED bookingFrame
    \/ /\ \E u \in FormUsers, clinic_does \in ConfirmAnswers :
             handle_login_password(u, <<"pwB">>, clinic_does)
       /\ UNCHANGED bookingFrame
    \/ /\ \E u \in FormUsers : handle_back_to_main(u)
       /\ UNCHANGED <<schedVars, pageVars, taskVars, wizVars>>
    \/ /\ \E u \in FormUsers : handle_start_command(u)
       /\ UNCHANGED <<schedVars, pageVars, taskVars, wizVars>>

SpecMarker == Init /\ [][NextMarker]_vars

\* the way to a reservation, the records view and its cancel buttons
NextRecords ==
    \/ NextReserve
    \/ /\ \E u \in FormUsers, clinic_does \in RecordsAnswers : show_records(u, clinic_does)
       /\ UNCHANGED <<state, bookingFrame>>
    \/ /\ reply.menu.kind = "records"
       /\ \E u \in FormUsers, j \in 1..Len(reply.menu.buttons),
             clinic_does \in [authorize : {"raises", "failed", "no_cookies", "ok"},
                              cancel : {"accepted", "refused"}] :
             handle_cancel_record_button(u, reply.menu.buttons[j], clinic_does)
       /\ UNCHANGED <<state, bookingFrame>>

SpecRecords == InitBooking /\ [][NextRecords]_vars

----------------------------------------------------------------------------
(* Claims about the appointment dialogue *)

\* C17: no exception leaves a handler: a failed fetch of branches,
\* departments or doctors and a non-numeric page number are answered with a
\* chat message.
C17_NoExceptionEscapes ==
    ~reply.escaped /\ (reply.handler # "none" => reply.replied)

MenuKinds == {"branches", "departments", "doctors"}
ListKey == [branches |-> "branches_list", departments |-> "departments_list",
            doctors |-> "doctors_list"]
PageKey == [branches |-> "branches_page", departments |-> "departments_page",
            doctors |-> "doctors_page"]

\* the cached list of a menu (no elements when none is cached) and its cursor
CachedItems(d, kind) ==
    LET l == ctx_get(d, ListKey[kind], JNull) IN IF l.t = "list" THEN l.v ELSE <<>>
CursorOf(d, kind) == ctx_get(d, PageKey[kind], JInt(0)).v

PagesOf(n) == IF n = 0 THEN 1 ELSE CeilFifth(n)

\* the requested page brought into [0, page_count - 1]
ClampedTo(want, n) ==
    IF want < 0 THEN 0 ELSE IF want >= PagesOf(n) THEN PagesOf(n) - 1 ELSE want

\* the menu shows exactly the items with indices [p * 5, min(p * 5 + 5, N))
ShowsPage(menu, items, p) ==
    LET N == Len(items)
        hi == IF p * 5 + 5 < N THEN p * 5 + 5 ELSE N
    IN /\ menu.page = p
       /\ Len(menu.buttons) = hi - p * 5
       /\ \A i \in 1..Len(menu.buttons) : menu.buttons[i] = items[p * 5 + i]

\* C11: a requested page below 0 is treated as page 0 and one >= page_count
\* as page_count - 1; the menu shows exactly the items of that page; the
\* cursor kept in the scratch dict (branches_page, departments_page,
\* doctors_page) is that clamped page and stays within [0, page_count - 1]
\* after every pagination, selection and back event.
C11_CursorIsClampedPage ==
    [][ \A u \in FormUsers :
          LET d == context_data'[u] IN
          /\ \A kind \in MenuKinds :
               /\ CursorOf(d, kind) >= 0
               /\ CursorOf(d, kind) <= PagesOf(Len(CachedItems(d, kind))) - 1
          /\ reply'.menu.kind \in MenuKinds =>
               LET kind == reply'.menu.kind
                   p == ClampedTo(reply'.requested, Len(CachedItems(d, kind)))
               IN /\ ShowsPage(reply'.menu, CachedItems(d, kind), p)
                  /\ CursorOf(d, kind) = p ]_vars

C11_Witness ==
    /\ reply.handler = "handle_departments_pagination"
    /\ reply.requested > 1
    /\ reply.menu.page = 1
    /\ Len(reply.menu.buttons) >= 1
    /\ \E u \in FormUsers : CursorOf(context_data[u], "departments") = 1

\* C15: a branch_, department_ or doctor_ payload whose id is not in the
\* cached list is answered with a 'not found' message and a keyboard, writes
\* no selected_* value and clears no cached list.
C15_NotFoundKeepsStateAndShowsMenu ==
    [][ reply'.outcome = "not_found"
        => /\ context_data' = context_data
           /\ reply'.replied
           /\ reply'.main_menu \/ reply'.menu.kind # "none" ]_vars

\* the menu of `kind` is rebuilt from the cached list at the stored cursor
\* without a call to the clinic
RebuiltFromCache(kind, d) ==
    /\ reply'.outcome = "shown"
    /\ reply'.fetches = 0
    /\ reply'.menu.kind = kind
    /\ ShowsPage(reply'.menu, CachedItems(d, kind), CursorOf(d, kind))

\* C18: back_to_branches, back_to_departments and back_to_doctors rebuild
\* the previous menu from the cached list at the page last shown and call
\* the clinic not at all, whenever the cached list is non-empty and was
\* fetched for the selected branch / department.
C18_BackNavigationUsesCache ==
    [][ \A u \in FormUsers :
          LET d == context_data[u]
              same(a, b) == /\ Truthy(ctx_get(d, b, JNull))
                            /\ ctx_get(d, a, JNull) = ctx_get(d, b, JNull)
          IN
          /\ (reply'.handler = "handle_back_to_branches"
                /\ CachedItems(d, "branches") # <<>>)
             => RebuiltFromCache("branches", d)
          /\ (reply'.handler = "handle_back_to_departments"
                /\ CachedItems(d, "departments") # <<>>
                /\ same("departments_cached_branch_id", "selected_branch_id"))
             => RebuiltFromCache("departments", d)
          /\ (reply'.handler = "handle_back_to_doctors"
                /\ CachedItems(d, "doctors") # <<>>
                /\ same("doctors_cached_branch_id", "selected_branch_id")
                /\ same("doctors_cached_department_id", "selected_department_id"))
             => RebuiltFromCache("doctors", d) ]_vars

\* C19: after a reservation was created the booking selections
\* (selected_time, selected_schedident, selected_work_date) are gone from the
\* scratch dict, so a btn_confirm_reservation that no new time selection
\* precedes sends no second reserve request.
C19_ReservationClearsSelections ==
    [][ reply'.handler = "handle_confirm_reservation"
        => /\ reply'.outcome = "reserved"
              => \A u \in FormUsers :
                   \A key \in {"selected_time", "selected_schedident", "selected_work_date"} :
                      ~Truthy(ctx_get(context_data'[u], key, JNull))
           /\ reply'.reserves > 0 => time_chosen.since_reservation ]_vars

\* handle_date_selection hands the response to format_schedule_info; the user
\* presses one of the time buttons it rendered
NextSchedule ==
    \/ /\ ~time_menu.built
       /\ LET r == format_schedule_info(intervals_data, selected_date, doctor_dcode) IN
          time_menu' = [built |-> TRUE, raised |-> r.raised, slots |-> r.slots]
       /\ UNCHANGED <<intervals_data, selected_date, doctor_dcode, entries, shape>>
       /\ UNCHANGED <<dbVars, pageVars, taskVars, wizVars>>
    \/ /\ time_menu.built /\ ~time_menu.raised
       /\ \E u \in FormUsers, j \in 1..Len(time_menu.slots) :
             handle_time_selection(u, time_payload(time_menu.slots[j]))
       /\ UNCHANGED <<dbVars, schedVars, pageVars, taskVars>>

SpecSchedule == InitSchedule /\ [][NextSchedule]_vars

\* C22: the payload of a time button round-trips. When the button of a free
\* interval with start time HH:MM, schedident s and date d is pressed,
\* handle_time_selection stores selected_time = HH:MM, selected_schedident =
\* the text of s and selected_work_date = the text of d.
C22_TimePayloadRoundTrips ==
    [][\A u \in FormUsers, j \in 1..Len(time_menu.slots) :
         LET info == time_menu.slots[j]
             start == get_start_time(info.time)
         IN (/\ time_menu.built /\ ~time_menu.raised
             /\ Len(start) = 5 /\ start[3] = Ch.colon
             /\ handle_time_selection(u, time_payload(info)))
            => /\ context_data'[u]["selected_time"] = JStr(start)
               /\ context_data'[u]["selected_schedident"] = JStr(PyStr(info.schedident))
               /\ context_data'[u]["selected_work_date"] = JStr(DateText(info.workDate))]_vars

C22_Witness ==
    /\ time_menu.built /\ Len(time_menu.slots) >= 2
    /\ reply.handler = "handle_time_selection"
    /\ \E u \in FormUsers :
         /\ "selected_time" \in DOMAIN context_data[u]
         /\ context_data[u]["selected_time"] = JStr(<<48, 57, 58, 51, 48>>)
         /\ context_data[u]["selected_schedident"] = JStr(<<52, 50>>)

----------------------------------------------------------------------------
(* poll_max_api_status: the Celery task that polls the signing status *)

PollMaxRetries == 30     \* @app.task(bind=True, max_retries=30, ...)
PollCountdown == 30      \* self.retry(countdown=30)

\* what one execution did: whether it ended with an exception, the texts it
\* handed to send_message, the operations it completed, the answer of
\* upload_document, and whether it returned before the retry statement
Ran_poll(raised, sent, did, upload, done) ==
    [raised |-> raised, sent |-> sent, did |-> did, upload |-> upload,
     done |-> done]

\* step_data.get("idZip") / step_data.get("idSig") of the med_permission step
id_zip(step) == step \in {"pending_zip", "pending_both", "wip_zip"}
id_sig(step) == step \in {"pending_sig", "pending_both"}

\* the branch taken for the med_permission step: download what the step
\* names, sign the archive, upload the signature, tell the user
sign_step(check) ==
    LET zip == id_zip(check.step)
        sig == id_sig(check.step)
        got == (IF zip THEN {"download_zip"} ELSE {})
                   \cup (IF sig THEN {"download_sig"} ELSE {})
    IN  IF check.step \in {"absent", "pending"}
        THEN Ran_poll(FALSE, <<>>, {}, "none", FALSE)
        ELSE IF zip /\ check.download = "zip_raises"
        THEN Ran_poll(TRUE, <<>>, {}, "none", TRUE)
        ELSE IF sig /\ check.download = "sig_raises"
        THEN Ran_poll(TRUE, <<>>, got \ {"download_sig"}, "none", TRUE)
        ELSE IF ~zip
        THEN Ran_poll(FALSE, <<>>, got, "none", TRUE)
        ELSE IF check.sign = "openssl_error"
        THEN Ran_poll(FALSE, <<"sign_failed_dot">>, got, "none", TRUE)
        ELSE IF check.sign = "raises"
        THEN Ran_poll(TRUE, <<>>, got, "none", TRUE)
        ELSE IF check.upload = "raises"
        THEN Ran_poll(TRUE, <<>>, got \cup {"sign"}, "none", TRUE)
        ELSE IF check.upload = "not_json"
        THEN Ran_poll(TRUE, <<>>, got \cup {"sign", "upload"}, "not_json", TRUE)
        ELSE IF check.upload = "file_id"
        THEN Ran_poll(FALSE, <<"signed">>, got \cup {"sign", "upload"},
                      "file_id", TRUE)
        ELSE Ran_poll(FALSE, <<>>, got \cup {"sign", "upload"}, "no_file_id",
                      TRUE)

\* a cancelled or failed transaction is handled like any other one
poll_run_ignores_final(check) ==
    IF check.raised
    THEN Ran_poll(TRUE, <<>>, {}, "none", TRUE)
    ELSE sign_step(check)

\* the body of the task up to the retry statement
poll_run(check) ==
    IF check.raised
    THEN Ran_poll(TRUE, <<>>, {}, "none", TRUE)
    ELSE IF check.status \in {"cancelled", "error"}
    THEN Ran_poll(FALSE, <<"sign_failed">>, {}, "none", TRUE)
    ELSE sign_step(check)

\* the task re-queues itself although max_retries is used up
poll_retry_unbounded(check) ==
    /\ poll.queued
    /\ LET finish(run) ==
               LET retry == ~run.raised /\ ~run.done /\ check.status = "active"
               IN [queued |-> retry,
                   retries |-> IF retry THEN poll.retries + 1 ELSE poll.retries,
                   runs |-> poll.runs + 1,
                   countdown |-> IF retry THEN PollCountdown ELSE 0,
                   status |-> check.status, step |-> check.step,
                   raised |-> run.raised, sent |-> run.sent, did |-> run.did,
                   upload |-> run.upload]
       IN poll' = finish(poll_run(check))

\* one execution of the task. self.retry sends the task again with
\* request.retries + 1 unless that exceeds max_retries, in which case it
\* raises MaxRetriesExceededError and nothing is sent
poll_max_api_status(check) ==
    /\ poll.queued
    /\ LET finish(run) ==
               LET retry == ~run.raised /\ ~run.done /\ check.status = "active"
                   requeued == retry /\ poll.retries + 1 <= PollMaxRetries
               IN [queued |-> requeued,
                   retries |-> IF requeued THEN poll.retries + 1
                               ELSE poll.retries,
                   runs |-> poll.runs + 1,
                   countdown |-> IF requeued THEN PollCountdown ELSE 0,
                   status |-> check.status, step |-> check.step,
                   raised |-> run.raised,
                   sent |-> run.sent, did |-> run.did, upload |-> run.upload]
       IN poll' = finish(poll_run(check))

\* poll_max_api_status.delay(...) has put the first message in the queue
InitPoll ==
    /\ InitDb /\ InitSchedIdle /\ InitPagesIdle /\ InitWizIdle
    /\ hook = NoHook /\ auth = NoAuth
    /\ poll = [NoPoll EXCEPT !.queued = TRUE]

\* what the signing service and openssl answer in one execution:
\* sync_check_status raises, or gives the transaction status and the
\* med_permission step (absent, or with its status and the idZip / idSig of
\* its data); a download, the openssl run and the upload succeed or fail
PollAnswers ==
    [raised : BOOLEAN,
     status : {"active", "cancelled", "error", "completed"},
     step : {"absent", "pending", "wip_partner", "pending_zip", "pending_sig",
             "pending_both", "wip_zip"},
     download : {"ok", "zip_raises", "sig_raises"},
     sign : {"ok", "openssl_error", "raises"},
     upload : {"file_id", "no_file_id", "not_json", "raises"}]

NextPoll ==
    \/ /\ \E check \in PollAnswers : poll_max_api_status(check)
       /\ UNCHANGED <<dbVars, schedVars, pageVars, wizVars, hook, auth>>

SpecPoll == InitPoll /\ [][NextPoll]_vars

\* C25: the task is queued again only after a run that found the transaction
\* 'active' and the med_permission step not ready (status not wip_partner,
\* neither idZip nor idSig), always with the delay of 30 seconds and at most
\* 30 times: a chain of runs ends after at most 31 executions.
C25_PollChainIsBounded ==
    [][ poll'.runs = poll.runs + 1
        => /\ poll'.runs <= 31
           /\ poll'.queued
              => /\ ~poll'.raised
                 /\ poll'.status = "active"
                 /\ poll'.step \in {"absent", "pending"}
                 /\ poll'.countdown = 30
                 /\ poll'.retries = poll.retries + 1
                 /\ poll'.retries <= 30 ]_vars

C25_Witness ==
    /\ poll.runs = 31
    /\ poll.retries = 30
    /\ ~poll.queued
    /\ poll.status = "active" /\ poll.step = "pending" /\ ~poll.raised

----------------------------------------------------------------------------
(* webhook_handler: two requests of one user handled by the event loop *)

MaxPending == 2      \* message ids in delete_messages_id when the requests arrive

\* The user's MemoryContext holds a dict object; get_data hands out that
\* object and set_data replaces it. hook.dicts and hook.lists are the dict and
\* list objects by identity, hook.ctx the dict the context holds. A request
\* runs without interruption from one `await` of a network call to the next.
\* the rest of the handler after _delete_messages has returned
after_delete_messages(r, h) ==
    [h EXCEPT !.req[r].pc = IF h.req[r].kind = "records" THEN "loading" ELSE "done"]

\* POST /bot/webhook -> dp.handle -> a handler that begins with
\* _delete_messages: data = get_data(), the first delete_message is awaited
webhook_handler(r, kind) ==
    /\ hook.req[r].pc = "idle"
    /\ LET lid == hook.dicts[hook.ctx].ids
           h == [hook EXCEPT !.req[r] = [kind |-> kind, pc |-> "deleting",
                                         data |-> hook.ctx, ids |-> lid, i |-> 1]]
       IN hook' = IF lid # 0 /\ hook.lists[lid] # <<>> THEN h
                  ELSE after_delete_messages(r, h)

\* _delete_messages: bot.delete_message(msg_id) has returned; the loop goes
\* on, or data['delete_messages_id'] = [] and set_data(data)
delete_messages_step(r) ==
    /\ hook.req[r].pc = "deleting"
    /\ LET q == hook.req[r]
           l == hook.lists[q.ids]
           h == [hook EXCEPT !.deleted = @ \cup {l[q.i]}]
       IN hook' = IF q.i < Len(l) THEN [h EXCEPT !.req[r].i = q.i + 1]
                  ELSE after_delete_messages(r,
                           [h EXCEPT !.lists = Append(@, <<>>),
                                     !.dicts[q.data].ids = Len(hook.lists) + 1,
                                     !.ctx = q.data])

\* _show_records: the records cached in the context are used, or the clinic
\* is asked for them
show_records_lookup(r) ==
    /\ hook.req[r].pc = "loading"
    /\ hook' = [hook EXCEPT !.req[r].pc = IF hook.dicts[hook.ctx].records
                                          THEN "answering" ELSE "fetching"]

\* _show_records: set_data({'records_data': ..., 'records_cookies': ...}),
\* then the records are answered
show_records_fetched(r) ==
    /\ hook.req[r].pc = "fetching"
    /\ hook' = [hook EXCEPT !.dicts = Append(@, [ids |-> 0, records |-> TRUE]),
                            !.ctx = Len(hook.dicts) + 1,
                            !.req[r].pc = "answering"]

\* _show_records: the message has been sent; current_data = get_data(), its
\* mid is appended to delete_messages_id, set_data(current_data)
show_records_answered(r) ==
    /\ hook.req[r].pc = "answering"
    /\ LET mid == 10 + r
           lid == hook.dicts[hook.ctx].ids
           h == [hook EXCEPT !.appended = @ \cup {mid}, !.req[r].pc = "done"]
       IN hook' = IF lid = 0
                  THEN [h EXCEPT !.lists = Append(@, <<mid>>),
                                 !.dicts[hook.ctx].ids = Len(hook.lists) + 1]
                  ELSE [h EXCEPT !.lists[lid] = Append(@, mid)]

InitWebhook ==
    /\ InitDb /\ InitSchedIdle /\ InitPagesIdle /\ InitWizIdle
    /\ poll = NoPoll /\ auth = NoAuth
    /\ \E n \in 0..MaxPending :
         hook = [ctx |-> 1,
                 dicts |-> <<[ids |-> 1, records |-> FALSE]>>,
                 lists |-> <<[k \in 1..n |-> k]>>,
                 req |-> [r \in (1..2) |->
                            [kind |-> "none", pc |-> "idle", data |-> 0, ids |-> 0, i |-> 0]],
                 deleted |-> {}, appended |-> {}]

NextWebhook ==
    \/ /\ \E r \in (1..2), kind \in {"menu", "records"} : webhook_handler(r, kind)
       /\ UNCHANGED <<dbVars, schedVars, pageVars, wizVars, poll, auth>>
    \/ /\ \E r \in (1..2) : delete_messages_step(r)
       /\ UNCHANGED <<dbVars, schedVars, pageVars, wizVars, poll, auth>>
    \/ /\ \E r \in (1..2) : show_records_lookup(r)
       /\ UNCHANGED <<dbVars, schedVars, pageVars, wizVars, poll, auth>>
    \/ /\ \E r \in (1..2) : show_records_fetched(r)
       /\ UNCHANGED <<dbVars, schedVars, pageVars, wizVars, poll, auth>>
    \/ /\ \E r \in (1..2) : show_records_answered(r)
       /\ UNCHANGED <<dbVars, schedVars, pageVars, wizVars, poll, auth>>

SpecWebhook == InitWebhook /\ [][NextWebhook]_vars

\* C24: two events of one user that arrive through the webhook are handled
\* one after the other, so no update of the scratch dict is lost: once both
\* handlers have ended, every message id a handler appended to
\* delete_messages_id is still in the list, unless its message was deleted.
C24_NoLostUpdate ==
    (\A r \in (1..2) : hook # NoHook /\ hook.req[r].pc = "done")
    => \A mid \in hook.appended :
          \/ mid \in hook.deleted
          \/ LET lid == hook.dicts[hook.ctx].ids
             IN lid # 0 /\ \E k \in 1..Len(hook.lists[lid]) : hook.lists[lid][k] = mid

----------------------------------------------------------------------------
(* InfoClinicaClient.login and authorize_user *)

\* {"success": False, "error": <text>}
ErrorJson(text) == JDict("success" :> JBool(FALSE) @@ "error" :> JStr(<<text>>))

\* what GET /logged-in does: the request raises (timeout, connection error,
\* another exception), or a response arrives: its status, its text and the
\* JSON parsed from it (None when the body is not JSON)
LoggedInAnswers ==
    {[exc |-> e, status |-> 0, text |-> "", json |-> JNull] :
       e \in {"timeout", "connect", "other"}}
    \cup {[exc |-> "none", status |-> st, text |-> "", json |-> JNull] : st \in {200, 500}}
    \cup {[exc |-> "none", status |-> st, text |-> "body", json |-> json] :
            st \in {200, 500},
            json \in {JNull,
                      JDict("authenticated" :> JBool(TRUE) @@ "id" :> JInt(5)),
                      JDict("authenticated" :> JBool(FALSE)),
                      JDict("authenticated" :> JBool(FALSE) @@ "error" :> JStr(<<"denied">>)),
                      JList(<<JInt(1)>>)}}

\* what POST /login does; a login answer carries success / error / message
LoginAnswers ==
    {[exc |-> e, status |-> 0, text |-> "", json |-> JNull] :
       e \in {"timeout", "connect", "other"}}
    \cup {[exc |-> "none", status |-> st, text |-> "", json |-> JNull] :
            st \in {200, 303, 401}}
    \cup {[exc |-> "none", status |-> st, text |-> "body", json |-> json] :
            st \in {200, 303, 401},
            json \in {JDict("success" :> JBool(TRUE)),
                      JDict("success" :> JBool(FALSE) @@ "error" :> JStr(<<"bad password">>)),
                      JDict("success" :> JBool(FALSE) @@ "message" :> JStr(<<"locked">>)),
                      JDict("success" :> JBool(FALSE)),
                      JList(<<JInt(1)>>)}}

\* GET / (get_initial_session): PLAY_SESSION is set, or it is not, or the
\* request fails; then the two status checks and the login request
ClinicLogins ==
    [session : {"cookie", "no_cookie", "failed"},
     before : LoggedInAnswers, login : LoginAnswers, after : LoggedInAnswers]

\* only the timeout is caught
caught_timeout_only(exc, sent) ==
    IF exc = "timeout"
    THEN [raised |-> FALSE, status_code |-> 408, text |-> "timeout",
          json |-> ErrorJson("timeout"), sent |-> sent]
    ELSE [raised |-> TRUE, status_code |-> 0, text |-> "", json |-> JNull, sent |-> sent]

\* the except clauses of login
caught(exc, sent) ==
    [raised |-> FALSE,
     status_code |-> IF exc = "timeout" THEN 408 ELSE IF exc = "connect" THEN 503 ELSE 500,
     text |-> exc, json |-> ErrorJson(exc), sent |-> sent]

\* InfoClinicaClient.login(payload, raise_for_status=False)
login(net) ==
    LET Or(a, b) == IF Truthy(a) THEN a ELSE b
        returned(status, text, json, sent) ==
            [raised |-> FALSE, status_code |-> status, text |-> text, json |-> json,
             sent |-> sent]
        \* x.json and x.json.get("authenticated"): .get of a list raises
        get_raises(x) == Truthy(x.json) /\ ~IsDict(x.json)
        authenticated(x) == Truthy(x.json) /\ Truthy(DictGet(x.json, "authenticated", JNull))
        \* 5. the status check after the login
        checked(x, sent) ==
            IF x.exc # "none" THEN caught(x.exc, sent)
            ELSE IF x.status # 200
            THEN returned(x.status, x.text, Or(x.json, ErrorJson("check failed")), sent)
            ELSE IF get_raises(x) THEN caught("other", sent)
            ELSE IF authenticated(x) THEN returned(x.status, x.text, x.json, sent)
            ELSE returned(x.status, x.text, Or(x.json, ErrorJson("not authorized")), sent)
        \* 3. and 4. POST /login and the look at its answer
        posted(x, sent) ==
            IF x.exc # "none" THEN caught(x.exc, sent)
            ELSE IF x.status \notin {200, 303}
            THEN returned(x.status, x.text, Or(x.json, ErrorJson("HTTP")), sent)
            ELSE IF /\ Truthy(x.json) /\ IsDict(x.json)
                    /\ ~Truthy(DictGet(x.json, "success", JBool(TRUE)))
                    /\ \/ Truthy(DictGet(x.json, "error", JNull))
                       \/ Truthy(DictGet(x.json, "message", JNull))
            THEN returned(x.status, x.text, x.json, sent)
            ELSE checked(net.after, sent \o <<"GET /logged-in">>)
        \* 2. the status check before the login
        first(x, sent) ==
            IF x.exc # "none" THEN caught(x.exc, sent)
            ELSE IF get_raises(x) THEN caught("other", sent)
            ELSE IF authenticated(x) THEN returned(x.status, x.text, x.json, sent)
            ELSE posted(net.login, sent \o <<"POST /login">>)
    IN IF net.session # "cookie"
       THEN returned(500, "no session", ErrorJson("no session"), <<"GET /">>)
       ELSE first(net.before, <<"GET /", "GET /logged-in">>)

\* the status of the login result is not looked at
authorize_user_any_status(net) ==
    LET decide(result) ==
            IF result.raised
            THEN [raised |-> TRUE, success |-> FALSE, error |-> JNull, sent |-> result.sent]
            ELSE [raised |-> FALSE,
                  success |-> Truthy(result.json) /\ IsDict(result.json)
                              /\ Truthy(DictGet(result.json, "authenticated", JNull)),
                  error |-> IF Truthy(result.json) /\ IsDict(result.json)
                               /\ Truthy(DictGet(result.json, "authenticated", JNull))
                            THEN JNull ELSE JStr(<<"unknown">>),
                  sent |-> result.sent]
    IN decide(login(net))

\* InfoClinicaClient.authorize_user(username, password)
authorize_user(net) ==
    LET Or(a, b) == IF Truthy(a) THEN a ELSE b
        done(raised, success, error, sent) ==
            [raised |-> raised, success |-> success, error |-> error, sent |-> sent]
        decide(result) ==
            IF result.raised THEN done(TRUE, FALSE, JNull, result.sent)
            ELSE IF result.status_code = 200 /\ Truthy(result.json)
            THEN IF ~IsDict(result.json) THEN done(TRUE, FALSE, JNull, result.sent)
                 ELSE IF Truthy(DictGet(result.json, "authenticated", JNull))
                 THEN done(FALSE, TRUE, JNull, result.sent)
                 ELSE done(FALSE, FALSE,
                           Or(DictGet(result.json, "error", JNull),
                              JStr(<<"not authorized after login">>)),
                           result.sent)
            ELSE IF Truthy(result.json) /\ IsDict(result.json)
            THEN done(FALSE, FALSE,
                      Or(DictGet(result.json, "error", JNull), JStr(<<"unknown">>)),
                      result.sent)
            ELSE IF result.text # ""
            THEN done(FALSE, FALSE, JStr(<<result.text>>), result.sent)
            ELSE done(FALSE, FALSE, JStr(<<"unknown">>), result.sent)
    IN decide(login(net))

\* the clinic's answers are fixed, authorize_user has not been called
InitClient ==
    /\ InitDb /\ InitSchedIdle /\ InitPagesIdle /\ InitWizIdle
    /\ poll = NoPoll /\ hook = NoHook
    /\ \E net \in ClinicLogins : auth = [NoAuth EXCEPT !.net = net]

\* one call with the answers the clinic is going to give
NextClient ==
    \/ /\ ~auth.called
       /\ auth' = [called |-> TRUE, net |-> auth.net, result |-> authorize_user(auth.net)]
       /\ UNCHANGED <<dbVars, schedVars, pageVars, wizVars, poll, hook>>

SpecClient == InitClient /\ [][NextClient]_vars

\* C21: pressing a doctor button selects the doctor it was rendered for: the
\* payload's identifier (dcode, or id when dcode is absent) is resolved by
\* handle_doctor_selection to that doctor, never to 'doctor not found' and
\* never to another doctor.
C21_DoctorButtonSelectsItsDoctor ==
    [][\A u \in FormUsers, j \in 1..Len(reply.menu.buttons) :
         LET doctor == reply.menu.buttons[j] IN
         (/\ reply.menu.kind = "doctors"
          /\ handle_doctor_selection(u, doctor_payload(doctor)))
         => /\ reply'.outcome # "not_found"
            /\ context_data'[u]["selected_doctor_dcode"] = DictGet(doctor, "dcode", JNull)
            /\ context_data'[u]["selected_doctor_id"]
               = DictGet(doctor, "id", DictGet(doctor, "dcode", JNull))]_vars

\* C26: handle_confirm_reservation sends a reserve request only if the user
\* has a row, the four selections are present, the clinic authorized the
\* row's credentials and gave session cookies, and the fresh intervals
\* request answered 200 with a body; it sends at most one request per event.
C26_ReserveOnlyAfterAllChecks ==
    [][reply'.handler = "handle_confirm_reservation"
       => \A u \in FormUsers, c \in ConfirmAnswers :
         (reply'.sent # <<>> /\ handle_confirm_reservation(u, c))
         => /\ Len(reply'.sent) <= 1
            /\ reply'.sent # <<>>
               => /\ \E r \in Matching(rows, u) :
                       /\ reply'.sent[1].cllogin = r.cllogin
                       /\ reply'.sent[1].clpassword = r.clpassword
                  /\ \A key \in {"selected_time", "selected_work_date",
                                  "selected_schedident", "selected_doctor_dcode"} :
                       Truthy(ctx_get(context_data[u], key, JNull))
                  /\ c.authorize = "ok"
                  /\ ~c.intervals.raised
                  /\ c.intervals.status = 200
                  /\ Truthy(c.intervals.json)]_vars

C26_Witness ==
    /\ reply.handler = "handle_confirm_reservation"
    /\ reply.outcome = "reserved"
    /\ Len(reply.sent) = 1

\* the response, in the nesting the time menu reads, holds an interval of the
\* selected doctor on the selected date that starts at the selected time
\* and is not free
MarkedBusy(json, d) ==
    /\ IsDict(json) /\ "data" \in DOMAIN json.v /\ selections_complete(d)
    /\ \E i \in 1..Len(json.v["data"].v) :
         LET workdates == json.v["data"].v[i].v["workdates"].v IN
         \E j \in 1..Len(workdates) : \E date \in DOMAIN workdates[j].v :
            /\ DateText(date) = d["selected_work_date"].v
            /\ \E k \in 1..Len(workdates[j].v[date].v) :
                 LET block == workdates[j].v[date].v[k] IN
                 /\ PyStr(block.v["dcode"]) = PyStr(d["selected_doctor_dcode"])
                 /\ \E n \in 1..Len(block.v["intervals"].v) :
                      LET interval == block.v["intervals"].v[n] IN
                      /\ get_start_time(interval.v["time"].v) = d["selected_time"].v
                      /\ interval.v["isFree"] = JBool(FALSE)

\* C27: no reserve request is sent when the fresh intervals response, in the
\* data -> workdates -> date -> block -> intervals nesting, marks the
\* selected doctor's interval at the selected time as not free; the handler
\* answers that the time is taken.
C27_NoReserveForBusySlot ==
    [][\A u \in FormUsers, c \in ConfirmAnswers :
         (/\ reply'.handler = "handle_confirm_reservation"
          /\ ~c.intervals.raised /\ c.intervals.status = 200
          /\ MarkedBusy(c.intervals.json, context_data[u])
          /\ handle_confirm_reservation(u, c))
         => /\ reply'.sent = <<>>
            /\ (Matching(rows, u) # {} /\ session_obtained(c))
               => reply'.outcome = "time_busy"]_vars

\* C28: whenever a reserve request is sent, its time, schedident and date were
\* written by a time selection made after the latest doctor selection, and
\* its department was selected after the latest branch selection.
C28_ReserveUsesCurrentPass ==
    reply.sent # <<>>
    => time_chosen.since_doctor /\ time_chosen.department_since_branch

\* C29: a reserve request is sent only for a user who has a row, in a session
\* authorized with that row's login and password.
C29_ReserveOnlyForRegisteredUser ==
    \A i \in 1..Len(reply.sent) :
       \E r \in rows :
          /\ r.id_max = reply.sent[i].id_max
          /\ r.cllogin = reply.sent[i].cllogin
          /\ r.clpassword = reply.sent[i].clpassword

\* C30: at the end of every handler a non-empty cached departments_list was
\* fetched for the selected branch and a non-empty cached doctors_list for
\* the selected branch and department; a menu of departments or doctors
\* that is shown is never one cached for another branch or department.
C30_CachedListsMatchSelection ==
    \A u \in FormUsers :
       LET d == context_data[u]
           val(key) == ctx_get(d, key, JNull)
           departments_ok == val("departments_cached_branch_id") = val("selected_branch_id")
           doctors_ok == /\ val("doctors_cached_branch_id") = val("selected_branch_id")
                         /\ val("doctors_cached_department_id")
                            = val("selected_department_id")
       IN /\ Truthy(val("departments_list")) => departments_ok
          /\ Truthy(val("doctors_list")) => doctors_ok
          /\ reply.menu.kind = "departments" => departments_ok
          /\ reply.menu.kind = "doctors" => doctors_ok

C30_Witness ==
    \E u \in FormUsers :
       LET d == context_data[u] IN
       /\ reply.handler = "handle_department_selection"
       /\ reply.menu.kind = "doctors" /\ reply.menu.buttons # <<>>
       /\ ctx_get(d, "selected_branch_id", JNull) = JStr(IdChars(2))
       /\ ctx_get(d, "doctors_cached_branch_id", JNull) = JStr(IdChars(2))
       /\ Truthy(ctx_get(d, "departments_list", JNull))
       /\ Truthy(ctx_get(d, "doctors_list", JNull))

\* a text message that one of the form handlers consumes
ConsumedByForm(u) ==
    \/ \E text \in RegTexts : handle_lk_registration_data(u, text)
    \/ \E text \in CredTexts :
          handle_change_credentials_data(u, text) \/ handle_auth_data(u, text)
    \/ handle_login_username(u, <<"b@x">>)
    \/ \E clinic_does \in ConfirmAnswers : handle_login_password(u, <<"pwB">>, clinic_does)

C32_StartCancelsRegistration ==
    [][\A u \in FormUsers :
         /\ (state[u] = LkRegistrationForm /\ last'.handler = "handle_start_command"
             /\ handle_start_command(u))
            => state'[u] = NoState
         /\ (last.handler = "handle_start_command" /\ last.user = u)
            => ~\E text \in RegTexts : handle_lk_registration_data(u, text)]_vars

\* C33: when the user is registered, the clinic authorizes the stored
\* credentials with a session and accepts the cancellation, the cancel button
\* reports the record cancelled and removes records_data and records_cookies
\* from the scratch dict; the records view that follows loads the list from
\* the clinic.
C33_CancelClearsRecordsCache ==
    [][\A u \in FormUsers :
         /\ (/\ reply'.handler = "handle_cancel_record_button"
             /\ reply.menu.kind = "records"
             /\ get_by_max_id(rows, u).kind = "row"
             /\ \E j \in 1..Len(reply.menu.buttons) :
                   handle_cancel_record_button(u, reply.menu.buttons[j],
                                               [authorize |-> "ok", cancel |-> "accepted"]))
            => /\ reply'.outcome = "cancelled"
               /\ "records_data" \notin DOMAIN context_data'[u]
               /\ "records_cookies" \notin DOMAIN context_data'[u]
         /\ (/\ reply.handler = "handle_cancel_record_button"
             /\ reply.outcome = "cancelled"
             /\ reply'.handler = "_show_records"
             /\ reply'.outcome \in {"shown", "no_records"})
            => reply'.fetches = 1]_vars

\* C34: the records view that follows a successful reservation loads the
\* list from the clinic; it does not show a records_data list cached before
\* the reservation.
C34_RecordsReloadedAfterReservation ==
    [][(/\ reply.outcome = "reserved"
        /\ reply'.handler = "_show_records"
        /\ reply'.outcome \in {"shown", "no_records"})
       => reply'.fetches = 1]_vars

\* a GET /logged-in that answered 200 with authenticated = true
Authenticated200(x) ==
    /\ x.exc = "none" /\ x.status = 200
    /\ x.json = JDict("authenticated" :> JBool(TRUE) @@ "id" :> JInt(5))

\* the n-th request of the call is the GET /logged-in before / after the login
SentBefore == Len(auth.result.sent) >= 2
SentAfter == Len(auth.result.sent) = 4

FirstFailure ==
    LET k == Len(auth.result.sent)
        x == IF k = 2 THEN auth.net.before ELSE IF k = 3 THEN auth.net.login
             ELSE auth.net.after
    IN IF k < 2 THEN "none"
       ELSE IF x.exc # "none" THEN x.exc
       ELSE IF k # 3 /\ (k = 2 \/ x.status = 200) /\ x.json.t = "list" THEN "other"
       ELSE "none"

====
